---- MODULE Spec2Model ----
(***************************************************************************)
(* The query matching and ranking engine of movie_recommender.py:          *)
(* find_matches over the module-level collection `movies`, with            *)
(* sanitize_query, the favorites (load_favorites, add_favorite,             *)
(* remove_favorite, get_favorite_movies), add_movie and                     *)
(* generate_synthetic_movies; and of                                        *)
(* expense_tracker.py the Expense, save_to_json and load_from_json, the     *)
(* saves in the background and the ExpenseManager.                          *)
(*                                                                         *)
(* Text is a sequence of one-character strings.  A number with one decimal *)
(* (rating, box_office_millions, min_rating) is the integer of its tenths. *)
(* A similarity score, a float in the code, is the integer of its halves.  *)
(* An optional argument is <<>> for None and <<v>> for the value v.         *)
(* A movie dict is a record; find_matches hands out references to the      *)
(* dicts of `movies`, here the positions 1..Len(movies).                    *)
(***************************************************************************)
EXTENDS Integers, Sequences, FiniteSets, TLC

VARIABLES
    movies,          \* the module-level list `movies`
    HAS_RAPIDFUZZ,   \* _HAS_RAPIDFUZZ: whether the scorer was importable
    called,          \* whether find_matches has returned yet
    args,            \* the arguments of the last find_matches call
    scores,          \* what the scorer answered in that call, per search text
    subset,          \* candidate_subset of that call: the movies handed to the scorer
    best,            \* the dict best of that call, in insertion order
    ret,             \* the list that call returned
    raised,          \* the exception that call raised instead of returning, "" for none
    rprocess,        \* whether rprocess, the batch form of the scorer, is not None
    calls,           \* how many times in a row the caller has made that call
    mistyped,        \* the parameter of that call whose value had a wrong type, "" for none
    text_in,         \* q of the sanitize_query call under study
    length_in,       \* max_length of that call
    text_out,        \* what that call returned, None before it has
    favorites,       \* the module-level list `favorites`
    favorites_set,   \* the module-level set `_favorites_set`
    file,            \* the content of the favorites file, None while there is no file
    last_call,       \* the last call of a function of the favorites, of add_movie, of
                     \* generate_synthetic_movies or of a method of the ExpenseManager
    last_return,     \* what that call returned
    disk,            \* the contents of the files, a file being its place in this list
    at_tmp,          \* the file at the temporary name of the saves, 0 if none
    at_path,         \* the file at the path of the saves, 0 if none
    pc,              \* for each thread, the step of save_to_json it is at
    fd,              \* for each thread, the file it has opened
    offset,          \* for each thread, the offset of its next write
    job,             \* for each thread, the pair (expenses, ndjson) it saves
    err,             \* for each thread, the exception that ended its save, "" for none
    joined,          \* whether wait_for_background_saves() has returned
    loaded,          \* what load_from_json(path) gave after that, None before
    objects,         \* the Expense objects of the program, an object being its place here
    expenses,        \* ExpenseManager.expenses, a list of objects
    sorted_cache     \* ExpenseManager._sorted_cache, None or <<list of objects>>

\* the state of the last find_matches call
searchVars == <<called, args, scores, subset, best, ret, raised, calls, mistyped>>

sanitizeVars == <<text_in, length_in, text_out>>

libraryVars == <<favorites, favorites_set, file, last_call, last_return>>

saveVars == <<disk, at_tmp, at_path, pc, fd, offset, job, err, joined, loaded>>

managerVars == <<objects, expenses, sorted_cache>>

vars ==
    <<movies, HAS_RAPIDFUZZ, rprocess, searchVars, sanitizeVars, libraryVars, saveVars,
      managerVars>>

\* all but the state of the ExpenseManager and the last call
otherThanManager ==
    <<movies, HAS_RAPIDFUZZ, rprocess, searchVars, sanitizeVars, favorites, favorites_set,
      file, saveVars>>

\* all but the state of the saves
otherThanSaves ==
    <<movies, HAS_RAPIDFUZZ, rprocess, searchVars, sanitizeVars, libraryVars, managerVars>>

---------------------------------------------------------------------------
(* The records of the model *)

\* a movie dict, from the tuple (name, year, category, genre, box_office_millions, rating)
Movie(t) ==
    [name |-> t[1], year |-> t[2], category |-> t[3], genre |-> t[4],
     box_office_millions |-> t[5], rating |-> t[6]]

\* the keyword arguments of a call, from the query text, the tuple of the
\* filters (genre, category, min_rating, year, year_from, year_to) and the tuple
\* (enable_fuzzy, fuzzy_threshold, sort_by, max_results)
Args(q, f, m) ==
    [year |-> f[4], category |-> f[2], genre |-> f[1], query_text |-> q,
     max_results |-> m[4], enable_fuzzy |-> m[1], fuzzy_threshold |-> m[2],
     min_rating |-> f[3], year_from |-> f[5], year_to |-> f[6], sort_by |-> m[3]]

\* a pair (m, p) of matches_with_priority, m a position of movies
Pair(m, p) == [m |-> m, p |-> p]

---------------------------------------------------------------------------
(* Bounds of the model *)

MaxMovies == 3

\* how many times in a row a caller makes the same call
MaxCalls == 2

---------------------------------------------------------------------------
(* Program constants *)

DEFAULT_FUZZY_THRESHOLD == 70

FUZZY_MAX_CANDIDATES == 250

DEFAULT_MAX_RESULTS == 50

DEFAULT_MAX_LENGTH == 100

---------------------------------------------------------------------------
(* Text *)

UpperCase == <<"A", "B", "K">>

LowerCase == <<"a", "b", "k">>

Digits == <<"0", "1", "2", "3", "4", "5", "6", "7", "8", "9">>

\* a line feed, DEL and NEL: characters of the ranges 00-1f, 7f and 80-9f
ControlChars == {"^J", "^?", "<85>"}

WhitespaceChars == {" "}

SeparatorChars == {" ", "/", ","}

\* str.lower() on one character
LowerChar(c) ==
    IF \E i \in 1..Len(UpperCase) : UpperCase[i] = c
    THEN LowerCase[CHOOSE i \in 1..Len(UpperCase) : UpperCase[i] = c]
    ELSE c

\* str.lower()
Lower(s) == [i \in 1..Len(s) |-> LowerChar(s[i])] \o <<>>

\* t in s, for two texts
Contains(t, s) ==
    \E i \in 0..(Len(s) - Len(t)) : SubSeq(s, i + 1, i + Len(t)) = t

\* s.startswith(t)
StartsWith(s, t) == Len(t) <= Len(s) /\ SubSeq(s, 1, Len(t)) = t

\* the characters of s outside the set drop, in order
RECURSIVE Without(_, _)
Without(s, drop) ==
    IF s = <<>> THEN <<>>
    ELSE IF Head(s) \in drop THEN Without(Tail(s), drop)
    ELSE <<Head(s)>> \o Without(Tail(s), drop)

\* str.strip(): leading and trailing whitespace removed
RECURSIVE Strip(_)
Strip(s) ==
    IF s = <<>> THEN <<>>
    ELSE IF Head(s) \in WhitespaceChars THEN Strip(Tail(s))
    ELSE IF s[Len(s)] \in WhitespaceChars THEN Strip(SubSeq(s, 1, Len(s) - 1))
    ELSE s

\* s[:n]
Prefix(s, n) ==
    IF n < 0 THEN SubSeq(s, 1, Len(s) + n)
    ELSE SubSeq(s, 1, IF n < Len(s) THEN n ELSE Len(s))

\* sanitize_query(q, max_length)
sanitize_query(q, max_length) ==
    LET cleaned == Strip(Without(q, ControlChars))
    IN  IF Len(cleaned) > max_length THEN Prefix(cleaned, max_length) ELSE cleaned

\* [t for t in re.split(seps, s) if t]: the maximal runs of characters outside seps
RECURSIVE SplitOn(_, _, _)
SplitOn(s, seps, cur) ==
    IF s = <<>> THEN (IF cur = <<>> THEN <<>> ELSE <<cur>>)
    ELSE IF Head(s) \in seps
         THEN (IF cur = <<>> THEN <<>> ELSE <<cur>>) \o SplitOn(Tail(s), seps, <<>>)
         ELSE SplitOn(Tail(s), seps, Append(cur, Head(s)))

\* tokens = [t for t in re.split(r'\s+|/|,', q_lower) if t]
Tokens(q_lower) == SplitOn(q_lower, SeparatorChars, <<>>)

\* name.split()
Words(name) == SplitOn(name, WhitespaceChars, <<>>)

\* str.isdigit()
IsDigit(s) == Len(s) > 0 /\ \A i \in 1..Len(s) : \E d \in 1..Len(Digits) : Digits[d] = s[i]

DigitValue(c) == (CHOOSE d \in 1..Len(Digits) : Digits[d] = c) - 1

\* int(s) for a text of digits
RECURSIVE ParseInt(_)
ParseInt(s) ==
    IF s = <<>> THEN 0
    ELSE 10 * ParseInt(SubSeq(s, 1, Len(s) - 1)) + DigitValue(s[Len(s)])

Range(s) == {s[i] : i \in 1..Len(s)}

---------------------------------------------------------------------------
(* Values *)

\* the value of an optional argument that is not None
Some(opt) == opt[1]

\* `if genre:` -- neither None nor the empty text
Truthy(opt) == opt # <<>> /\ Some(opt) # <<>>

\* a float similarity score of so many whole points, in halves
Halves(points) == 2 * points

\* int(score)
IntOfScore(score) == score \div 2

\* a > b for two tuples of numbers of the same length
TupleGt(a, b) ==
    \E i \in 1..Len(a) : a[i] > b[i] /\ \A j \in 1..(i - 1) : a[j] = b[j]

\* sorted(s, key=..., reverse=True), keys[k] the key of s[k]: descending by key,
\* equal keys in their order in s
SortDesc(s, keys) ==
    LET n == Len(s)
        pos == [k \in 1..n |->
                  1 + Cardinality({j \in 1..n : \/ TupleGt(keys[j], keys[k])
                                                \/ (keys[j] = keys[k] /\ j < k)})] \o <<>>
    IN  [p \in 1..n |-> s[CHOOSE k \in 1..n : pos[k] = p]] \o <<>>

---------------------------------------------------------------------------
(* find_matches: the filters *)

\* (m.get('name'), m.get('year'))
IdentityKey(m) == <<m.name, m.year>>

GenreFilter(ms, list, genre) ==
    IF ~Truthy(genre) THEN list
    ELSE LET genre_lower == Lower(Some(genre))
         IN  SelectSeq(list, LAMBDA i : \/ Contains(genre_lower, Lower(ms[i].genre))
                                        \/ Contains(genre_lower, Lower(ms[i].category)))

CategoryFilter(ms, list, category) ==
    IF ~Truthy(category) THEN list
    ELSE LET cat_lower == Lower(Some(category))
         IN  SelectSeq(list, LAMBDA i : \/ Contains(cat_lower, Lower(ms[i].category))
                                        \/ Contains(cat_lower, Lower(ms[i].genre)))

MinRatingFilter(ms, list, min_rating) ==
    IF min_rating = <<>> THEN list
    ELSE SelectSeq(list, LAMBDA i : ms[i].rating >= Some(min_rating))

YearFilter(ms, list, year) ==
    IF year = <<>> THEN list
    ELSE SelectSeq(list, LAMBDA i : ms[i].year = Some(year))

YearFromFilter(ms, list, year_from) ==
    IF year_from = <<>> THEN list
    ELSE SelectSeq(list, LAMBDA i : ms[i].year >= Some(year_from))

YearToFilter(ms, list, year_to) ==
    IF year_to = <<>> THEN list
    ELSE SelectSeq(list, LAMBDA i : ms[i].year <= Some(year_to))

\* movie_list after the filters, as positions of movies
Filtered(ms, a) ==
    LET l0 == [i \in 1..Len(ms) |-> i] \o <<>>
        l1 == GenreFilter(ms, l0, a.genre)
        l2 == CategoryFilter(ms, l1, a.category)
        l3 == MinRatingFilter(ms, l2, a.min_rating)
        l4 == YearFilter(ms, l3, a.year)
        l5 == YearFromFilter(ms, l4, a.year_from)
    IN  YearToFilter(ms, l5, a.year_to)

\* no exception: the call returned
NoError == ""

\* movie_list when the filter on the parameter param is reached
FilteredBefore(ms, a, param) ==
    LET l0 == [i \in 1..Len(ms) |-> i] \o <<>>
        l2 == CategoryFilter(ms, GenreFilter(ms, l0, a.genre), a.category)
        l3 == MinRatingFilter(ms, l2, a.min_rating)
        l4 == YearFilter(ms, l3, a.year)
        l5 == YearFromFilter(ms, l4, a.year_from)
    IN  CASE param = "min_rating" -> l2
          [] param = "year" -> l3
          [] param = "year_from" -> l4
          [] param = "year_to" -> l5

\* the filter on param, its value a str: m.get('rating') >= min_rating, m.get('year') >=
\* year_from and m.get('year') <= year_to compare a number with the str and raise TypeError
\* at the first movie of movie_list; m.get('year') == year is False for every movie
FilterRaises(ms, a, param) ==
    /\ param \in {"min_rating", "year_from", "year_to"}
    /\ FilteredBefore(ms, a, param) # <<>>

\* HasFilters with year_from left out of the test
HasFiltersButYearFrom(a) ==
    \/ Truthy(a.genre) \/ Truthy(a.category) \/ a.min_rating # <<>>
    \/ a.year # <<>> \/ a.year_to # <<>>

\* genre or category or min_rating is not None or year is not None or ...
HasFilters(a) ==
    \/ Truthy(a.genre) \/ Truthy(a.category) \/ a.min_rating # <<>>
    \/ a.year # <<>> \/ a.year_from # <<>> \/ a.year_to # <<>>

\* q = sanitize_query(query_text) if query_text is not None else ''
QueryOf(a) ==
    IF a.query_text = <<>> THEN <<>> ELSE sanitize_query(Some(a.query_text), DEFAULT_MAX_LENGTH)

QLower(a) == Lower(QueryOf(a))

---------------------------------------------------------------------------
(* find_matches: the matching stages *)

\* TierPriority with the name left out of the substring test
TierPriorityGenreOnly(m, tokens) ==
    LET name == Lower(m.name)
        genre_v == Lower(m.genre)
        category_v == Lower(m.category)
    IN  IF \E k \in 1..Len(tokens) : \/ Contains(tokens[k], genre_v)
                                     \/ Contains(tokens[k], category_v)
        THEN 1000
        ELSE IF \E k \in 1..Len(tokens) : StartsWith(name, tokens[k])
        THEN 900
        ELSE IF \E k \in 1..Len(tokens) : tokens[k] \in Range(Words(name))
        THEN 800
        ELSE 0

\* TierPriority with the substring test on the name turned around: name in t
TierPriorityNameInToken(m, tokens) ==
    LET name == Lower(m.name)
        genre_v == Lower(m.genre)
        category_v == Lower(m.category)
    IN  IF \E k \in 1..Len(tokens) : \/ Contains(name, tokens[k])
                                     \/ Contains(tokens[k], genre_v)
                                     \/ Contains(tokens[k], category_v)
        THEN 1000
        ELSE IF \E k \in 1..Len(tokens) : StartsWith(name, tokens[k])
        THEN 900
        ELSE IF \E k \in 1..Len(tokens) : tokens[k] \in Range(Words(name))
        THEN 800
        ELSE 0

\* the priority the text tiers give movie m for the tokens, 0 when no tier matches
TierPriority(m, tokens) ==
    LET name == Lower(m.name)
        genre_v == Lower(m.genre)
        category_v == Lower(m.category)
    IN  IF \E k \in 1..Len(tokens) : \/ Contains(tokens[k], name)
                                     \/ Contains(tokens[k], genre_v)
                                     \/ Contains(tokens[k], category_v)
        THEN 1000
        ELSE IF \E k \in 1..Len(tokens) : StartsWith(name, tokens[k])
        THEN 900
        ELSE IF \E k \in 1..Len(tokens) : tokens[k] \in Range(Words(name))
        THEN 800
        ELSE 0

\* the priority the query gives movie m before the fuzzy stage, 0 when unmatched
TextPriority(m, q_lower, has_filters) ==
    IF q_lower = <<>> /\ has_filters THEN 1000
    ELSE IF IsDigit(q_lower) THEN (IF m.year = ParseInt(q_lower) THEN 1000 ELSE 0)
    ELSE TierPriority(m, Tokens(q_lower))

\* matches_with_priority before the fuzzy stage: (movie, priority) in movie_list order
TextMatches(ms, movie_list, q_lower, has_filters) ==
    LET pr == [k \in 1..Len(movie_list) |->
                  TextPriority(ms[movie_list[k]], q_lower, has_filters)] \o <<>>
        hit == SelectSeq([k \in 1..Len(movie_list) |-> k], LAMBDA k : pr[k] > 0)
    IN  [j \in 1..Len(hit) |-> Pair(movie_list[hit[j]], pr[hit[j]])] \o <<>>

\* enable_fuzzy and _HAS_RAPIDFUZZ and q_lower
FuzzyRuns(a, has_rapidfuzz) == a.enable_fuzzy /\ has_rapidfuzz /\ QLower(a) # <<>>

\* Candidates drawn from the whole collection in place of movie_list
CandidatesUnfiltered(ms, movie_list, matches) ==
    LET existing_keys == {IdentityKey(ms[matches[j].m]) : j \in 1..Len(matches)}
    IN  SelectSeq([i \in 1..Len(ms) |-> i] \o <<>>,
                  LAMBDA i : IdentityKey(ms[i]) \notin existing_keys)

\* candidates: the movies of movie_list whose key no earlier stage matched
Candidates(ms, movie_list, matches) ==
    LET existing_keys == {IdentityKey(ms[matches[j].m]) : j \in 1..Len(matches)}
    IN  SelectSeq(movie_list, LAMBDA i : IdentityKey(ms[i]) \notin existing_keys)

RatingRevenueKey(m) == <<m.rating, m.box_office_millions>>

\* CandidateSubset with the slice left out
CandidateSubsetUncapped(ms, candidates) ==
    SortDesc(candidates,
             [k \in 1..Len(candidates) |-> RatingRevenueKey(ms[candidates[k]])] \o <<>>)

\* candidate_subset = candidates_sorted[:FUZZY_MAX_CANDIDATES]
CandidateSubset(ms, candidates) ==
    Prefix(SortDesc(candidates,
                    [k \in 1..Len(candidates) |-> RatingRevenueKey(ms[candidates[k]])] \o <<>>),
           FUZZY_MAX_CANDIDATES)

\* m.get('_search_text', f"{name} {genre} {category}").lower()
SearchText(m) == Lower(m.name \o <<" ">> \o m.genre \o <<" ">> \o m.category)

\* ClearsThreshold with > in place of >=
ClearsThresholdStrictly(score, fuzzy_threshold) == score > Halves(fuzzy_threshold)

\* score >= fuzzy_threshold
ClearsThreshold(score, fuzzy_threshold) == score >= Halves(fuzzy_threshold)

\* the (movie, priority) pairs the fuzzy stage appends, sc the scorer's score of each text
FuzzyMatches(ms, candidate_subset, sc, fuzzy_threshold) ==
    LET kept == SelectSeq(candidate_subset,
                          LAMBDA i : ClearsThreshold(sc[SearchText(ms[i])], fuzzy_threshold))
        scored == SortDesc(kept, [k \in 1..Len(kept) |->
                                     <<sc[SearchText(ms[kept[k]])], ms[kept[k]].rating,
                                       ms[kept[k]].box_office_millions>>] \o <<>>)
    IN  [j \in 1..Len(scored) |->
            Pair(scored[j], IntOfScore(sc[SearchText(ms[scored[j]])]))] \o <<>>

---------------------------------------------------------------------------
(* find_matches: merge, sort, truncate *)

\* BestPut with the key test left out: every pair is kept
BestPutKeepingAll(ms, b, e) == Append(b, e)

\* best[key] = (p, m) unless key is there with a priority at least p
BestPut(ms, b, e) ==
    IF \E k \in 1..Len(b) : IdentityKey(ms[b[k].m]) = IdentityKey(ms[e.m])
    THEN LET k == CHOOSE k \in 1..Len(b) : IdentityKey(ms[b[k].m]) = IdentityKey(ms[e.m])
         IN  IF e.p > b[k].p THEN [b EXCEPT ![k] = e] ELSE b
    ELSE Append(b, e)

\* the dict best after the loop over matches_with_priority, started from b: the
\* entries are put one by one in their order, the first half before the second
\* (the test of first has it computed before the second half is entered)
RECURSIVE BestOf(_, _, _)
BestOf(ms, matches, b) ==
    IF Len(matches) = 0 THEN b
    ELSE IF Len(matches) = 1 THEN BestPut(ms, b, matches[1])
    ELSE LET h == Len(matches) \div 2
             first == BestOf(ms, SubSeq(matches, 1, h), b)
         IN  IF first = <<>> THEN first
             ELSE BestOf(ms, SubSeq(matches, h + 1, Len(matches)), first)

\* _priority_of(movie)
PriorityOf(ms, b, i) ==
    IF \E k \in 1..Len(b) : IdentityKey(ms[b[k].m]) = IdentityKey(ms[i])
    THEN b[CHOOSE k \in 1..Len(b) : IdentityKey(ms[b[k].m]) = IdentityKey(ms[i])].p
    ELSE 0

\* sort_by.lower()
LowerWord(w) == IF w = "Year" THEN "year" ELSE w

\* SortKey with the rating ahead of the priority in the default order
SortKeyRatingFirst(ms, b, sort_by, i) ==
    LET m == ms[i]
        prio == PriorityOf(ms, b, i)
        sb == IF sort_by = <<>> THEN "" ELSE LowerWord(Some(sort_by))
    IN  IF sb = "rating" THEN <<m.rating, m.box_office_millions, prio>>
        ELSE IF sb \in {"box_office", "box_office_millions"}
        THEN <<m.box_office_millions, m.rating, prio>>
        ELSE IF sb = "year" THEN <<m.year, m.rating, prio>>
        ELSE <<m.rating, prio, m.box_office_millions>>

\* the key ordered.sort uses for movie position i
SortKey(ms, b, sort_by, i) ==
    LET m == ms[i]
        prio == PriorityOf(ms, b, i)
        sb == IF sort_by = <<>> THEN "" ELSE LowerWord(Some(sort_by))
    IN  IF sb = "rating" THEN <<m.rating, m.box_office_millions, prio>>
        ELSE IF sb \in {"box_office", "box_office_millions"}
        THEN <<m.box_office_millions, m.rating, prio>>
        ELSE IF sb = "year" THEN <<m.year, m.rating, prio>>
        ELSE <<prio, m.rating, m.box_office_millions>>

\* Ordered, every second call in a row handing the sorted list out back to front
OrderedAlternating(ms, b, sort_by) ==
    LET sorted == SortDesc([k \in 1..Len(b) |-> b[k].m] \o <<>>,
                           [k \in 1..Len(b) |-> SortKey(ms, b, sort_by, b[k].m)] \o <<>>)
    IN  IF calls % 2 = 0 THEN sorted
        ELSE [k \in 1..Len(sorted) |-> sorted[Len(sorted) + 1 - k]] \o <<>>

\* ordered after the sort
Ordered(ms, b, sort_by) ==
    SortDesc([k \in 1..Len(b) |-> b[k].m] \o <<>>,
             [k \in 1..Len(b) |-> SortKey(ms, b, sort_by, b[k].m)] \o <<>>)

\* Truncate keeping the last max_results in place of the first
TruncateFromEnd(ordered, max_results) ==
    IF max_results # 0 /\ max_results < Len(ordered)
    THEN SubSeq(ordered, Len(ordered) - max_results + 1, Len(ordered))
    ELSE ordered

\* ordered[:max_results] if max_results else ordered
Truncate(ordered, max_results) ==
    IF max_results # 0 THEN Prefix(ordered, max_results) ELSE ordered

---------------------------------------------------------------------------
(* find_matches as a whole *)

\* the stages before the scorer is called: movie_list, the text matches, candidate_subset
BeforeScoring(ms, has_rapidfuzz, a) ==
    LET movie_list == Filtered(ms, a)
        text == TextMatches(ms, movie_list, QLower(a), HasFilters(a))
    IN  [subset |-> IF FuzzyRuns(a, has_rapidfuzz)
                    THEN CandidateSubset(ms, Candidates(ms, movie_list, text))
                    ELSE <<>>,
         movie_list |-> movie_list,
         text |-> text]

\* candidate_subset of the call, empty when the fuzzy stage is skipped
SubsetOf(ms, has_rapidfuzz, a) == BeforeScoring(ms, has_rapidfuzz, a).subset

\* the answer of the scorer that stands for its raising an exception
Raise == -1

\* except Exception: score = 0
ScoreOrZero(sc) == [t \in DOMAIN sc |-> IF sc[t] = Raise THEN 0 ELSE sc[t]]

\* the candidates that come back with a score: with rprocess, none of them once
\* rprocess.extract raised (results = []); all of them in the loop over fuzz.partial_ratio
Scored(ms, candidate_subset, sc, has_rprocess) ==
    IF /\ has_rprocess
       /\ \E k \in 1..Len(candidate_subset) : sc[SearchText(ms[candidate_subset[k]])] = Raise
    THEN <<>>
    ELSE candidate_subset

\* a call that returns the empty list, or raises, before any stage has run
Early(exception) == [subset |-> <<>>, best |-> <<>>, ret |-> <<>>, raised |-> exception]

\* the call from start to return: candidate_subset, the dict best, the returned list, the
\* exception raised.  wrong names the parameter given a value of a wrong type, an int for
\* query_text, a str for min_rating, year, year_from or year_to; a.wrong is then None
FindMatches(ms, has_rapidfuzz, has_rprocess, a, wrong, sc) ==
    IF wrong = "query_text" THEN Early(NoError)
    ELSE IF wrong # "" /\ FilterRaises(ms, a, wrong) THEN Early("TypeError")
    ELSE IF wrong # "" THEN Early(NoError)
    ELSE
    LET pre == BeforeScoring(ms, has_rapidfuzz, a)
        all == IF FuzzyRuns(a, has_rapidfuzz)
               THEN pre.text \o FuzzyMatches(ms, Scored(ms, pre.subset, sc, has_rprocess),
                                             ScoreOrZero(sc), a.fuzzy_threshold)
               ELSE pre.text
        b == BestOf(ms, all, <<>>)
    IN  [subset |-> pre.subset,
         best |-> b,
         ret |-> Truncate(Ordered(ms, b, a.sort_by), a.max_results),
         raised |-> NoError]

---------------------------------------------------------------------------
(* The inputs of the model *)

None == <<>>

\* (name, year, category, genre, box_office_millions, rating)
MoviePool ==
    << <<<<"A", "b">>, 1, <<"K">>, <<"g">>, 20, 80>>,
       <<<<"b", " ", "c">>, 1, <<"K">>, <<"h">>, 30, 80>>,
       <<<<"0", "1">>, 2, <<"k">>, <<"g", "/", "h">>, 10, 90>> >>

\* query_text
QueryTexts ==
    << None, << <<>> >>, << <<"b">> >>, << <<" ", "A", "^J">> >>, << <<"k", "/", "c">> >>,
       << <<"0", "1">> >>, << <<"z">> >> >>

\* (genre, category, min_rating, year, year_from, year_to)
FilterSets ==
    << <<None, None, None, None, None, None>>,
       <<<< <<"k">> >>, None, None, None, None, None>>,
       <<<< <<>> >>, << <<"G">> >>, None, None, None, None>>,
       <<None, None, <<90>>, None, None, None>>,
       <<None, None, None, <<1>>, None, None>>,
       <<None, None, None, None, <<2>>, None>>,
       <<<< <<"h">> >>, None, <<80>>, None, None, <<1>> >> >>

\* (enable_fuzzy, fuzzy_threshold, sort_by, max_results)
Modes ==
    << <<TRUE, DEFAULT_FUZZY_THRESHOLD, None, DEFAULT_MAX_RESULTS>>,
       <<FALSE, DEFAULT_FUZZY_THRESHOLD, None, DEFAULT_MAX_RESULTS>>,
       <<TRUE, DEFAULT_FUZZY_THRESHOLD - 1, None, 0>>,
       <<TRUE, DEFAULT_FUZZY_THRESHOLD, None, 2>>,
       <<FALSE, DEFAULT_FUZZY_THRESHOLD, None, 1>>,
       <<TRUE, DEFAULT_FUZZY_THRESHOLD, <<"Year">>, 0>>,
       <<FALSE, DEFAULT_FUZZY_THRESHOLD, <<"year">>, 2>>,
       <<TRUE, DEFAULT_FUZZY_THRESHOLD, <<"rating">>, 1>>,
       <<FALSE, DEFAULT_FUZZY_THRESHOLD, <<"box_office">>, 0>>,
       <<TRUE, DEFAULT_FUZZY_THRESHOLD, <<"title">>, 2>> >>

\* find_matches(): every argument at its default
DefaultArgs ==
    Args(<< <<>> >>, <<None, None, None, None, None, None>>,
         <<TRUE, DEFAULT_FUZZY_THRESHOLD, None, DEFAULT_MAX_RESULTS>>)

\* the scores the scorer may answer: just under, half a point under, and at the default threshold
ScoreValues ==
    << Halves(DEFAULT_FUZZY_THRESHOLD - 1), Halves(DEFAULT_FUZZY_THRESHOLD) - 1,
       Halves(DEFAULT_FUZZY_THRESHOLD) >>

TextsOf(ms, list) == {SearchText(ms[list[k]]) : k \in 1..Len(list)}

---------------------------------------------------------------------------
(* The state machine *)

NoCall ==
    /\ called = FALSE
    /\ args = DefaultArgs
    /\ scores = <<>>
    /\ subset = <<>>
    /\ best = <<>>
    /\ ret = <<>>
    /\ raised = NoError
    /\ calls = 0
    /\ mistyped = ""

\* no sanitize_query call under study
NoSanitize ==
    /\ text_in = <<>>
    /\ length_in = DEFAULT_MAX_LENGTH
    /\ text_out = None

\* favorites = [], _favorites_set = set(), no favorites file
NoFavorites ==
    /\ favorites = <<>>
    /\ favorites_set = {}
    /\ file = None
    /\ last_call = <<>>
    /\ last_return = FALSE

\* the threads that save in the background
Threads == {1, 2}

\* no save has been started, and the path has no file
NoSaves ==
    /\ disk = <<>>
    /\ at_tmp = 0
    /\ at_path = 0
    /\ pc = [t \in Threads |-> "idle"]
    /\ fd = [t \in Threads |-> 0]
    /\ offset = [t \in Threads |-> 0]
    /\ job = [t \in Threads |-> <<>>]
    /\ err = [t \in Threads |-> NoError]
    /\ joined = FALSE
    /\ loaded = None

\* no ExpenseManager
NoManager ==
    /\ objects = <<>>
    /\ expenses = <<>>
    /\ sorted_cache = None

\* from rapidfuzz import fuzz, then process as rprocess: both, fuzz alone, or neither
Imported ==
    /\ HAS_RAPIDFUZZ \in BOOLEAN
    /\ rprocess \in BOOLEAN
    /\ rprocess => HAS_RAPIDFUZZ

Init ==
    /\ movies = <<>>
    /\ Imported
    /\ NoCall
    /\ NoSanitize
    /\ NoFavorites
    /\ NoSaves
    /\ NoManager

\* movies.append(movie) by the owner of the collection, no duplicate check
movies_append(movie) ==
    /\ ~called
    /\ Len(movies) < MaxMovies
    /\ movies' = Append(movies, movie)
    /\ UNCHANGED <<HAS_RAPIDFUZZ, rprocess, searchVars, sanitizeVars, libraryVars>>
    /\ UNCHANGED <<saveVars, managerVars>>

\* MoviesAfter, ordered.sort and the cut working on the list movies itself
MoviesAfterSortedInPlace(ms, returned) ==
    returned \o SelectSeq([i \in 1..Len(ms) |-> i] \o <<>>, LAMBDA i : i \notin Range(returned))

\* the positions of the movies of the collection ms, in their order after a call that
\* returned the list returned: movie_list = list(movies) is a new list, and so are the
\* filtered lists and ordered, which the sorts and the cut work on
MoviesAfter(ms, returned) == [i \in 1..Len(ms) |-> i] \o <<>>

\* find_matches(**a), the parameter wrong given a value of a wrong type, the scorer
\* answering sc
find_matches(a, wrong, sc) ==
    /\ called' = TRUE
    /\ calls' = calls + 1
    /\ args' = a
    /\ mistyped' = wrong
    /\ scores' = sc
    /\ \E r \in {FindMatches(movies, HAS_RAPIDFUZZ, rprocess, a, wrong, sc)} :
           /\ subset' = r.subset
           /\ best' = r.best
           /\ ret' = r.ret
           /\ raised' = r.raised
           /\ movies' = [k \in 1..Len(movies) |-> movies[MoviesAfter(movies, r.ret)[k]]] \o <<>>
    /\ UNCHANGED <<HAS_RAPIDFUZZ, rprocess, sanitizeVars, libraryVars>>
    /\ UNCHANGED <<saveVars, managerVars>>

\* the caller is done with the returned list
result_consumed ==
    /\ called
    /\ called' = FALSE
    /\ args' = DefaultArgs
    /\ scores' = <<>>
    /\ subset' = <<>>
    /\ best' = <<>>
    /\ ret' = <<>>
    /\ raised' = NoError
    /\ calls' = 0
    /\ mistyped' = ""
    /\ UNCHANGED <<movies, HAS_RAPIDFUZZ, rprocess, sanitizeVars, libraryVars>>
    /\ UNCHANGED <<saveVars, managerVars>>

\* a caller appends a movie from the pool
AppendMovie == \E i \in 1..Len(MoviePool) : movies_append(Movie(MoviePool[i]))

\* a caller searches, with any of the modelled arguments and any answers of the scorer
Search ==
    /\ ~called
    /\ \E q \in 1..Len(QueryTexts), f \in 1..Len(FilterSets), m \in 1..Len(Modes) :
         LET a == Args(QueryTexts[q], FilterSets[f], Modes[m])
         IN  \E sc \in [TextsOf(movies, SubsetOf(movies, HAS_RAPIDFUZZ, a)) -> Range(ScoreValues)] :
                find_matches(a, "", sc)

Next ==
    \/ AppendMovie
    \/ Search
    \/ result_consumed

Spec == Init /\ [][Next]_vars

---------------------------------------------------------------------------
(* The same call made again *)

\* the filters and the modes of the calls that are repeated
RepeatedFilterSets == <<1, 7>>

RepeatedModes == <<1, 4, 6>>

\* a caller searches; while the result of a call is at hand, the call made is that call
\* again: the same arguments, the scorer answering the same
SearchRepeatedly ==
    /\ calls < MaxCalls
    /\ \E q \in 1..Len(QueryTexts), f \in 1..Len(RepeatedFilterSets),
          m \in 1..Len(RepeatedModes) :
         LET a == Args(QueryTexts[q], FilterSets[RepeatedFilterSets[f]],
                       Modes[RepeatedModes[m]])
         IN  /\ called => a = args
             /\ \E sc \in [TextsOf(movies, SubsetOf(movies, HAS_RAPIDFUZZ, a)) ->
                              Range(ScoreValues)] :
                    /\ called => sc = scores
                    /\ find_matches(a, "", sc)

NextRepeat ==
    \/ AppendMovie
    \/ SearchRepeatedly
    \/ result_consumed

SpecRepeat == Init /\ [][NextRepeat]_vars

---------------------------------------------------------------------------
(* Calls with a value of a wrong type, calls in which the scorer raises *)

\* query_text of these calls
FaultQueryTexts == << << <<>> >>, << <<"b">> >>, << <<"z">> >> >>

\* (genre, category, min_rating, year, year_from, year_to)
FaultFilterSets ==
    << <<None, None, None, None, None, None>>,
       <<<< <<"h">> >>, None, None, None, None, None>>,
       <<None, None, None, <<2>>, None, None>> >>

\* (enable_fuzzy, fuzzy_threshold, sort_by, max_results)
FaultModes ==
    << <<TRUE, DEFAULT_FUZZY_THRESHOLD, None, DEFAULT_MAX_RESULTS>>,
       <<TRUE, 0, None, DEFAULT_MAX_RESULTS>>,
       <<FALSE, DEFAULT_FUZZY_THRESHOLD, None, DEFAULT_MAX_RESULTS>> >>

\* the parameter given a value of a wrong type: none, or one of these
WrongParams == <<"", "query_text", "min_rating", "year", "year_from", "year_to">>

\* what the scorer does with a text: it raises, or it scores under or at the default threshold
FaultScoreValues == <<Raise, Halves(DEFAULT_FUZZY_THRESHOLD - 1), Halves(DEFAULT_FUZZY_THRESHOLD)>>

\* the arguments a with the value of param, which is of a wrong type, taken out
Mistype(a, param) == IF param = "" THEN a ELSE [a EXCEPT ![param] = None]

\* a caller searches, one of the arguments perhaps of a wrong type, the scorer perhaps raising
SearchFaulty ==
    /\ ~called
    /\ \E q \in 1..Len(FaultQueryTexts), f \in 1..Len(FaultFilterSets),
          m \in 1..Len(FaultModes), w \in 1..Len(WrongParams) :
         LET a == Mistype(Args(FaultQueryTexts[q], FaultFilterSets[f], FaultModes[m]),
                          WrongParams[w])
         IN  \E sc \in IF WrongParams[w] # "" THEN {<<>>}
                       ELSE [TextsOf(movies, SubsetOf(movies, HAS_RAPIDFUZZ, a)) ->
                                Range(FaultScoreValues)] :
                find_matches(a, WrongParams[w], sc)

NextFaults ==
    \/ AppendMovie
    \/ SearchFaulty
    \/ result_consumed

SpecFaults == Init /\ [][NextFaults]_vars

---------------------------------------------------------------------------
(* sanitize_query on its own *)

\* the longest text handed to sanitize_query
MaxTextLen == 3

\* a letter, a blank, and the control characters
SanitizeChars == {"a", " "} \cup ControlChars

\* q: every text of these characters up to the longest
SanitizeTexts == UNION {[1..n -> SanitizeChars] : n \in 0..MaxTextLen}

\* max_length: below zero, zero, within and beyond the texts, and the default
MaxLengths == {0 - 1, 0, 1, 2, DEFAULT_MAX_LENGTH}

\* a caller is about to call sanitize_query(text_in, length_in)
InitSanitize ==
    /\ movies = <<>>
    /\ Imported
    /\ NoCall
    /\ NoFavorites
    /\ NoSaves
    /\ NoManager
    /\ text_in \in SanitizeTexts
    /\ length_in \in MaxLengths
    /\ text_out = None

\* sanitize_query(text_in, length_in) returns
sanitize_return ==
    /\ text_out = None
    /\ text_out' = <<sanitize_query(text_in, length_in)>>
    /\ UNCHANGED <<movies, HAS_RAPIDFUZZ, rprocess, searchVars, text_in, length_in, libraryVars>>
    /\ UNCHANGED <<saveVars, managerVars>>

SpecSanitize == InitSanitize /\ [][sanitize_return]_vars

---------------------------------------------------------------------------
(* The favorites and add_movie.  A call is the tuple of the name of the     *)
(* function and its arguments; add_favorite and remove_favorite have one    *)
(* more, whether save_favorites succeeds when the call gets to it.          *)

\* a favorites entry {'name': name, 'year': year}
Entry(name, year) == [name |-> name, year |-> year]

\* (name_lower, year)
FavoriteKey(name, year) == <<Lower(name), year>>

\* AlreadyFavorite, the name looked up as it is spelled
AlreadyFavoriteAsSpelled(fset, name, year) == <<name, year>> \in fset

\* (name_lower, year) in _favorites_set
AlreadyFavorite(fset, name, year) == FavoriteKey(name, year) \in fset

\* any(m.get('name', '').lower() == name_lower and m.get('year') == year for m in movies)
MovieExists(ms, name, year) ==
    \E i \in 1..Len(ms) : Lower(ms[i].name) = Lower(name) /\ ms[i].year = year

\* list.remove(entry): the list without the first element equal to entry
RemoveFirst(list, entry) ==
    IF \E k \in 1..Len(list) : list[k] = entry
    THEN LET first == CHOOSE k \in 1..Len(list) :
                         list[k] = entry /\ \A j \in 1..(k - 1) : list[j] # entry
         IN  SubSeq(list, 1, first - 1) \o SubSeq(list, first + 1, Len(list))
    ELSE list

\* RolledBack, the entry left in the list
NotRolledBack(list, entry) == list

\* favorites.remove(entry) after a failed save
RolledBack(list, entry) == RemoveFirst(list, entry)

\* the favorites file after save_favorites: json.dump(favorites, f) done, or, the save
\* failing, the file as it was or opened for writing and left empty
FilesAfterSave(favs, old, save_ok) == IF save_ok THEN {<<favs>>} ELSE {old, << <<>> >>}

\* add_favorite(name, year), typed telling whether name is a str and year an int
add_favorite(name, year, typed, save_ok) ==
    /\ last_call' = <<"add_favorite", name, year, save_ok, typed>>
    /\ IF \/ ~typed
          \/ AlreadyFavorite(favorites_set, name, year)
          \/ ~MovieExists(movies, name, year)
       THEN /\ last_return' = FALSE
            /\ UNCHANGED <<favorites, favorites_set, file>>
       ELSE LET entry == Entry(name, year)
                added == Append(favorites, entry)
            IN  /\ file' \in FilesAfterSave(added, file, save_ok)
                /\ favorites' = IF save_ok THEN added ELSE RolledBack(added, entry)
                /\ favorites_set' =
                      IF save_ok THEN favorites_set \cup {FavoriteKey(name, year)}
                      ELSE (favorites_set \cup {FavoriteKey(name, year)})
                              \ {FavoriteKey(name, year)}
                /\ last_return' = save_ok
    /\ UNCHANGED <<movies, HAS_RAPIDFUZZ, rprocess, searchVars, sanitizeVars>>
    /\ UNCHANGED <<saveVars, managerVars>>

\* remove_favorite(name, year)
remove_favorite(name, year, save_ok) ==
    /\ last_call' = <<"remove_favorite", name, year, save_ok, TRUE>>
    /\ IF FavoriteKey(name, year) \notin favorites_set
       THEN /\ last_return' = FALSE
            /\ UNCHANGED <<favorites, favorites_set, file>>
       ELSE LET kept == SelectSeq(favorites, LAMBDA f :
                            ~(Lower(f.name) = Lower(name) /\ f.year = year))
            IN  /\ favorites' = kept
                /\ favorites_set' = favorites_set \ {FavoriteKey(name, year)}
                /\ file' \in FilesAfterSave(kept, file, save_ok)
                /\ last_return' = save_ok
    /\ UNCHANGED <<movies, HAS_RAPIDFUZZ, rprocess, searchVars, sanitizeVars>>
    /\ UNCHANGED <<saveVars, managerVars>>

\* get_favorite_movies(): for each favorite, the first movie of its name and year
get_favorite_movies(ms, favs) ==
    LET found == SelectSeq(favs, LAMBDA f :
                     \E i \in 1..Len(ms) : ms[i].name = f.name /\ ms[i].year = f.year)
    IN  [k \in 1..Len(found) |->
            CHOOSE i \in 1..Len(ms) :
                /\ ms[i].name = found[k].name /\ ms[i].year = found[k].year
                /\ \A j \in 1..(i - 1) :
                      ~(ms[j].name = found[k].name /\ ms[j].year = found[k].year)] \o <<>>

\* the keys validate_movie_schema requires
RequiredKeys == {"name", "year", "category", "genre", "box_office_millions", "rating"}

\* validate_movie_schema(movie): wrong holds the keys of movie whose value is of another
\* type than the function tests for, and "movie" if movie is no dict at all
validate_movie_schema(movie, wrong) ==
    /\ "movie" \notin wrong
    /\ RequiredKeys \subseteq DOMAIN movie
    /\ "name" \notin wrong /\ movie.name # <<>>
    /\ "year" \notin wrong
    /\ "box_office_millions" \notin wrong
    /\ "rating" \notin wrong

\* IsDuplicate, the names compared as they are spelled
IsDuplicateAsSpelled(ms, movie) ==
    <<movie.name, movie.year>> \in {<<ms[i].name, ms[i].year>> : i \in 1..Len(ms)}

\* key in existing
IsDuplicate(ms, movie) ==
    <<Lower(movie.name), movie.year>> \in {<<Lower(ms[i].name), ms[i].year>> : i \in 1..Len(ms)}

\* add_movie(movie)
add_movie(movie, wrong) ==
    /\ last_call' = <<"add_movie", movie, wrong>>
    /\ IF ~validate_movie_schema(movie, wrong) THEN last_return' = FALSE /\ movies' = movies
       ELSE IF IsDuplicate(movies, movie) THEN last_return' = FALSE /\ movies' = movies
       ELSE last_return' = TRUE /\ movies' = Append(movies, movie)
    /\ UNCHANGED <<HAS_RAPIDFUZZ, rprocess, searchVars, sanitizeVars, favorites, favorites_set,
                   file>>
    /\ UNCHANGED <<saveVars, managerVars>>

\* movies.pop(i) by the owner of the collection
movies_pop(i) ==
    /\ last_call' = <<"movies.pop", i>>
    /\ last_return' = TRUE
    /\ movies' = SubSeq(movies, 1, i - 1) \o SubSeq(movies, i + 1, Len(movies))
    /\ UNCHANGED <<HAS_RAPIDFUZZ, rprocess, searchVars, sanitizeVars, favorites, favorites_set,
                   file>>
    /\ UNCHANGED <<saveVars, managerVars>>

\* the names and the years of the calls
LibraryNames == << <<"A", "b">>, <<"a", "b">> >>

LibraryYears == <<1, 2>>

\* a movie dict of that name and year
LibraryMovie(name, year) == Movie(<<name, year, <<"K">>, <<"g">>, 20, 80>>)

\* the dicts handed to add_movie, each with the keys whose value is of a wrong type:
\* the well-formed ones, then one with an empty name, one with keys missing and its year a
\* str, one with its rating a str, and a value that is no dict
MovieCandidates ==
    [n \in 1..Len(LibraryNames), y \in 1..Len(LibraryYears) |->
        <<LibraryMovie(LibraryNames[n], LibraryYears[y]), {}>>]

BadCandidates ==
    << <<LibraryMovie(<<>>, 1), {}>>,
       <<[name |-> <<>>, year |-> 1, category |-> <<"K">>], {"year"}>>,
       <<LibraryMovie(LibraryNames[1], 2), {"rating"}>>,
       <<LibraryMovie(LibraryNames[1], 2), {"movie"}>> >>

\* the collections the calls start from: no two movies of one (name, year)
StartCollections ==
    << <<>>,
       <<LibraryMovie(LibraryNames[1], 1)>>,
       <<LibraryMovie(LibraryNames[1], 1), LibraryMovie(LibraryNames[2], 1)>> >>

InitLibrary ==
    /\ \E c \in 1..Len(StartCollections) : movies = StartCollections[c]
    /\ Imported
    /\ NoCall
    /\ NoSanitize
    /\ NoFavorites
    /\ NoSaves
    /\ NoManager

AddFavorite ==
    \E n \in 1..Len(LibraryNames), y \in 1..Len(LibraryYears), typed, save_ok \in BOOLEAN :
        add_favorite(LibraryNames[n], LibraryYears[y], typed, save_ok)

RemoveFavorite ==
    \E n \in 1..Len(LibraryNames), y \in 1..Len(LibraryYears), save_ok \in BOOLEAN :
        remove_favorite(LibraryNames[n], LibraryYears[y], save_ok)

AddMovie ==
    /\ Len(movies) < MaxMovies
    /\ \/ \E n \in 1..Len(LibraryNames), y \in 1..Len(LibraryYears) :
             add_movie(MovieCandidates[n, y][1], MovieCandidates[n, y][2])
       \/ \E b \in 1..Len(BadCandidates) : add_movie(BadCandidates[b][1], BadCandidates[b][2])

PopMovie == \E i \in 1..Len(movies) : movies_pop(i)

NextLibrary ==
    \/ AddFavorite
    \/ RemoveFavorite
    \/ AddMovie
    \/ PopMovie

SpecLibrary == InitLibrary /\ [][NextLibrary]_vars

---------------------------------------------------------------------------
(* Dataset expansion.  A word of the four lists below is one character of   *)
(* text: no query or filter of the model has a letter in common with them. *)

GENRES ==
    <<"Action", "Comedy", "Drama", "Sci-Fi", "Horror", "Thriller", "Romance",
      "Animation", "Fantasy", "Documentary", "Biography", "Family", "Adventure">>

CATEGORIES ==
    <<"Blockbuster", "Streaming", "Indie", "Prestige", "Franchise", "Animation", "Other">>

ADJECTIVES ==
    <<"Silent", "Crimson", "Golden", "Hidden", "Final", "Broken", "New", "Last",
      "First", "Endless", "Lonely", "Electric", "Shadow", "Secret", "Forgotten",
      "Midnight", "Distant", "Red", "Blue", "Iron", "Silver", "Urban", "Desert",
      "Frozen", "Burning">>

NOUNS ==
    <<"Dawn", "Echo", "Protocol", "Empire", "Promise", "Memory", "Reckoning",
      "Code", "Journey", "Legacy", "Labyrinth", "River", "Sky", "Threshold", "City",
      "Island", "Valley", "Storm", "Run", "Game", "Hour", "Moment", "Edge", "Light">>

START_YEAR == 2019

END_YEAR == 2025

\* the k-th number random hands out after random.seed(42): the stream is fixed,
\* and stands here as a fixed scrambling of k
Random(k) == ((k + 42) * 7919) % 32749

\* random.randint(lo, hi), and round(random.uniform(lo, hi), 1) in tenths, at draw k
RandInt(k, lo, hi) == lo + (Random(k) % (hi - lo + 1))

\* random.choice(list) at draw k
Choice(k, list) == list[RandInt(k, 1, Len(list))]

\* the title _unique_title gives the n-th movie of the collection: an adjective
\* and a noun that no earlier movie has
UniqueTitle(n) ==
    <<ADJECTIVES[(((n - 1) \div Len(NOUNS)) % Len(ADJECTIVES)) + 1], " ",
      NOUNS[((n - 1) % Len(NOUNS)) + 1]>>

\* the entry generate_synthetic_movies builds for place n of the collection
SyntheticMovie(n) ==
    LET d == 5 * n
        yr == RandInt(d, START_YEAR, END_YEAR)
        genre_w == Choice(d + 1, GENRES)
        category_w == Choice(d + 2, CATEGORIES)
        box == IF category_w = "Blockbuster" THEN RandInt(d + 3, 500, 20000)
               ELSE IF category_w = "Franchise" THEN RandInt(d + 3, 200, 10000)
               ELSE IF category_w = "Streaming" THEN RandInt(d + 3, 0, 500)
               ELSE IF category_w = "Animation" THEN RandInt(d + 3, 100, 9000)
               ELSE RandInt(d + 3, 1, 2000)
        rtg == IF category_w = "Prestige" THEN RandInt(d + 4, 70, 95)
               ELSE IF category_w \in {"Blockbuster", "Franchise"} THEN RandInt(d + 4, 60, 90)
               ELSE RandInt(d + 4, 50, 85)
    IN  Movie(<<UniqueTitle(n), yr, <<category_w>>, <<genre_w>>, box, rtg>>)

\* generate_synthetic_movies(target_count): the entries that bring ms to target_count
generate_synthetic_movies(ms, target_count) ==
    [k \in 1..(target_count - Len(ms)) |-> SyntheticMovie(Len(ms) + k)] \o <<>>

\* expand_dataset_if_needed(min_total)
expand_dataset_if_needed(min_total) ==
    /\ ~called
    /\ movies' = IF Len(movies) >= min_total THEN movies
                 ELSE movies \o generate_synthetic_movies(movies, min_total)
    /\ UNCHANGED <<HAS_RAPIDFUZZ, rprocess, searchVars, sanitizeVars, libraryVars>>
    /\ UNCHANGED <<saveVars, managerVars>>

\* min_total: one under and one over the default max_results, the scorer's cap and one over it
Totals ==
    <<DEFAULT_MAX_RESULTS - 1, DEFAULT_MAX_RESULTS + 1,
      FUZZY_MAX_CANDIDATES, FUZZY_MAX_CANDIDATES + 1>>

\* query_text of the searches of an expanded collection
LargeQueryTexts ==
    << << <<>> >>, << <<"q">> >>, << <<"2", "0", "2", "0">> >> >>

\* (genre, category, min_rating, year, year_from, year_to)
LargeFilterSets ==
    << <<None, None, None, None, None, None>>,
       <<None, None, <<70>>, None, None, None>>,
       <<None, None, None, None, <<START_YEAR>>, None>> >>

\* (enable_fuzzy, fuzzy_threshold, sort_by, max_results)
LargeModes ==
    << <<TRUE, DEFAULT_FUZZY_THRESHOLD, None, DEFAULT_MAX_RESULTS>>,
       <<TRUE, DEFAULT_FUZZY_THRESHOLD, None, 0>> >>

\* the collection grows to one of the totals
Expand == \E n \in 1..Len(Totals) : expand_dataset_if_needed(Totals[n])

\* a caller searches the collection; the scorer gives every text the same score
SearchLarge ==
    /\ ~called
    /\ \E q \in 1..Len(LargeQueryTexts), f \in 1..Len(LargeFilterSets),
          m \in 1..Len(LargeModes), v \in 1..Len(ScoreValues) :
         find_matches(Args(LargeQueryTexts[q], LargeFilterSets[f], LargeModes[m]), "",
                      [t \in TextsOf(movies, [i \in 1..Len(movies) |-> i]) |-> ScoreValues[v]])

NextLarge ==
    \/ Expand
    \/ SearchLarge
    \/ result_consumed

SpecLarge == Init /\ [][NextLarge]_vars

---------------------------------------------------------------------------
(* load_favorites.  The favorites file is None while there is none, <<list>> *)
(* when it holds a JSON list, and <<kind, content>> when it holds anything   *)
(* else: JSON of another type, or text that is no JSON.                      *)

\* isinstance(entry, dict) and 'name' in entry and 'year' in entry and ...
ValidEntry(entry) == "name" \in DOMAIN entry /\ "year" \in DOMAIN entry

\* valid: {'name': entry['name'], 'year': entry['year']} of each entry that passes
ValidEntries(data) ==
    LET passed == SelectSeq(data, ValidEntry)
    IN  [k \in 1..Len(passed) |-> Entry(passed[k].name, passed[k].year)] \o <<>>

\* LoadedKeys, the names as they are spelled
LoadedKeysAsSpelled(favs) == {<<favs[k].name, favs[k].year>> : k \in 1..Len(favs)}

\* {(f['name'].lower(), f['year']) for f in favorites}
LoadedKeys(favs) == {FavoriteKey(favs[k].name, favs[k].year) : k \in 1..Len(favs)}

\* load_favorites(): no file, no list in it, or an exception on the way give empty
\* favorites
load_favorites ==
    /\ last_call' = <<"load_favorites">>
    /\ \E valid \in {IF file = None \/ Len(file) # 1 THEN <<>> ELSE ValidEntries(file[1])} :
           /\ favorites' = valid
           /\ favorites_set' = LoadedKeys(valid)
           /\ last_return' = valid
    /\ UNCHANGED <<movies, HAS_RAPIDFUZZ, rprocess, searchVars, sanitizeVars, file>>
    /\ UNCHANGED <<saveVars, managerVars>>

\* the favorites files the calls start from: none; a list with two entries of one movie
\* in two spellings, an entry without a year and an entry with a key more; a JSON dict;
\* text that is no JSON
FavoritesFiles ==
    << None,
       << << Entry(LibraryNames[1], 2), Entry(LibraryNames[2], 2), [name |-> LibraryNames[1]],
             [name |-> LibraryNames[2], year |-> 2, rating |-> 80] >> >>,
       <<"dict", Entry(LibraryNames[1], 1)>>,
       <<"text", <<"x">>>> >>

InitFavorites ==
    /\ \E c \in 1..Len(StartCollections) : movies = StartCollections[c]
    /\ Imported
    /\ NoCall
    /\ NoSanitize
    /\ favorites = <<>>
    /\ favorites_set = {}
    /\ \E f \in 1..Len(FavoritesFiles) : file = FavoritesFiles[f]
    /\ last_call = <<>>
    /\ last_return = FALSE
    /\ NoSaves
    /\ NoManager

NextFavorites ==
    \/ load_favorites
    \/ AddFavorite
    \/ RemoveFavorite

SpecFavorites == InitFavorites /\ [][NextFavorites]_vars

---------------------------------------------------------------------------
(* generate_synthetic_movies under every outcome of random.  The model      *)
(* draws the outcomes of random.choice and random.randint from a few of     *)
(* the values they can give.                                                *)

DrawnAdjectives == {ADJECTIVES[1], ADJECTIVES[2]}

DrawnNouns == {NOUNS[1]}

\* random.randint(1000, 9999)
DrawnSuffixes == {"1000", "9999"}

\* the titles _unique_title(existing) can return.  A try returns its title if it is not in
\* existing; the fallback is reached when each of the 1000 tries drew a title of existing,
\* and its title is returned without a look at existing.
_unique_title(existing) ==
    LET tried == {<<a, " ", n>> : a \in DrawnAdjectives, n \in DrawnNouns}
        fallback == {<<a, " ", n, " ", s>> :
                        a \in DrawnAdjectives, n \in DrawnNouns, s \in DrawnSuffixes}
    IN  (tried \ existing) \cup (IF tried \cap existing # {} THEN fallback ELSE {})

\* the lists of names the loop of generate_synthetic_movies can build on from generated,
\* for a collection of so many movies with the names existing_titles
RECURSIVE GeneratedNames(_, _, _, _)
GeneratedNames(count, existing_titles, generated, target_count) ==
    IF count + Len(generated) < target_count
    THEN UNION {GeneratedNames(count, existing_titles, Append(generated, name), target_count) :
                    name \in _unique_title(existing_titles \cup Range(generated))}
    ELSE {generated}

\* generate_synthetic_movies(target_count) returns; what is random in an entry but its
\* name stands as in SyntheticMovie
synthetic_movies_generated(target_count) ==
    /\ last_call' = <<"generate_synthetic_movies", target_count>>
    /\ \E names \in GeneratedNames(Len(movies), {movies[i].name : i \in 1..Len(movies)},
                                   <<>>, target_count) :
           last_return' = [k \in 1..Len(names) |->
                              [SyntheticMovie(Len(movies) + k) EXCEPT !.name = names[k]]] \o <<>>
    /\ UNCHANGED <<movies, HAS_RAPIDFUZZ, rprocess, searchVars, sanitizeVars, favorites,
                   favorites_set, file, saveVars, managerVars>>

\* movies.extend(generated), as expand_dataset_if_needed does with what was returned
movies_extend ==
    /\ last_call # <<>>
    /\ last_call[1] = "generate_synthetic_movies"
    /\ movies' = movies \o last_return
    /\ last_call' = <<"movies.extend">>
    /\ last_return' = TRUE
    /\ UNCHANGED <<HAS_RAPIDFUZZ, rprocess, searchVars, sanitizeVars, favorites,
                   favorites_set, file, saveVars, managerVars>>

\* the collections the calls start from: empty, one movie of another name, one movie
\* named as a title of the fallback, and two movies
TitleCollections ==
    << <<>>,
       <<LibraryMovie(LibraryNames[1], 1)>>,
       <<LibraryMovie(<<ADJECTIVES[1], " ", NOUNS[1], " ", "9999">>, 1)>>,
       <<LibraryMovie(LibraryNames[1], 1), LibraryMovie(<<ADJECTIVES[2], " ", NOUNS[1]>>, 2)>> >>

\* the largest target_count the calls ask for
MaxTarget == 4

InitTitles ==
    /\ \E c \in 1..Len(TitleCollections) : movies = TitleCollections[c]
    /\ HAS_RAPIDFUZZ = FALSE /\ rprocess = FALSE
    /\ NoCall
    /\ NoSanitize
    /\ NoFavorites
    /\ NoSaves
    /\ NoManager

Generate ==
    \E target_count \in 0..MaxTarget : synthetic_movies_generated(target_count)

NextTitles ==
    \/ Generate
    \/ movies_extend

SpecTitles == InitTitles /\ [][NextTitles]_vars

---------------------------------------------------------------------------
(* expense_tracker.py: the Expense.  An Expense is the tuple of its fields  *)
(* (amount, description, category, date, notes).  A value carries its type: *)
(* Decimal('12.50') is <<"Decimal", 1250, 2>>, its digits as an integer and *)
(* the number of them after the point; a date is <<"date", y, m, d>>; a str *)
(* is <<"str", text>>; a member of the enum Category is <<name>>, and None  *)
(* is <<>>.  description and notes, always of type str, are plain texts.    *)

Expense(amount, description, category, date, notes) ==
    <<amount, description, category, date, notes>>

\* the members of Category and their values
Category ==
    << <<"FOOD", <<"F", "o", "o", "d">> >>,
       <<"TRANSPORT", <<"T", "r", "a", "n", "s", "p", "o", "r", "t">> >>,
       <<"UTILITIES", <<"U", "t", "i", "l", "i", "t", "i", "e", "s">> >>,
       <<"ENTERTAINMENT",
         <<"E", "n", "t", "e", "r", "t", "a", "i", "n", "m", "e", "n", "t">> >>,
       <<"OTHER", <<"O", "t", "h", "e", "r">> >> >>

\* cat.value
CategoryValue(cat) == Category[CHOOSE i \in 1..Len(Category) : Category[i][1] = cat][2]

\* str.upper() on the letters of the values of Category
Upper(s) ==
    LET small == <<"a", "d", "e", "h", "i", "l", "m", "n", "o", "p", "r", "s", "t">>
        big == <<"A", "D", "E", "H", "I", "L", "M", "N", "O", "P", "R", "S", "T">>
    IN  [i \in 1..Len(s) |->
            IF \E k \in 1..Len(small) : small[k] = s[i]
            THEN big[CHOOSE k \in 1..Len(small) : small[k] = s[i]]
            ELSE s[i]] \o <<>>

\* normalize_category(value), value None, a member of Category, or <<"str", text>>
normalize_category(value) ==
    IF value = None THEN None
    ELSE IF value[1] # "str" THEN value
    ELSE LET val == Strip(value[2])
             key == Upper(Without(val, WhitespaceChars \cup {"_", "-"}))
             hits == {i \in 1..Len(Category) :
                         \/ Upper(CategoryValue(Category[i][1])) = key
                         \/ Upper(CategoryValue(Category[i][1])) = Upper(val)}
         IN  IF val = <<>> THEN None
             ELSE IF hits # {} THEN <<Category[CHOOSE i \in hits : \A j \in hits : i <= j][1]>>
             ELSE <<"OTHER">>

\* the digits of a natural number, at least width of them
RECURSIVE DigitsOf(_, _)
DigitsOf(n, width) ==
    IF n < 10 /\ width <= 1 THEN <<Digits[n + 1]>>
    ELSE Append(DigitsOf(n \div 10, width - 1), Digits[(n % 10) + 1])

RECURSIVE Pow10(_)
Pow10(n) == IF n = 0 THEN 1 ELSE 10 * Pow10(n - 1)

\* str(amount) for a Decimal with no exponent
DecimalStr(d) ==
    LET mag == IF d[2] < 0 THEN 0 - d[2] ELSE d[2]
        whole == DigitsOf(mag \div Pow10(d[3]), 1)
        frac == IF d[3] = 0 THEN <<>> ELSE <<".">> \o DigitsOf(mag % Pow10(d[3]), d[3])
    IN  (IF d[2] < 0 THEN <<"-">> ELSE <<>>) \o whole \o frac

\* Decimal(text): digits, with or without a sign and a point; anything else raises
\* InvalidOperation
DecimalOf(text) ==
    LET neg == text # <<>> /\ text[1] = "-"
        body == IF neg THEN Tail(text) ELSE text
        parts == SplitOn(body, {"."}, <<>>)
        dots == Cardinality({i \in 1..Len(body) : body[i] = "."})
        sign == IF neg THEN 0 - 1 ELSE 1
    IN  IF dots = 0 /\ IsDigit(body) THEN <<"Decimal", sign * ParseInt(body), 0>>
        ELSE IF dots = 1 /\ Len(parts) = 2 /\ IsDigit(parts[1]) /\ IsDigit(parts[2])
                /\ body[1] # "." /\ body[Len(body)] # "."
        THEN <<"Decimal", sign * ParseInt(parts[1] \o parts[2]), Len(parts[2])>>
        ELSE <<"InvalidOperation">>

\* a == b and a < b for two Decimals
DecimalEq(a, b) == a[2] * Pow10(b[3]) = b[2] * Pow10(a[3])

DecimalLt(a, b) == a[2] * Pow10(b[3]) < b[2] * Pow10(a[3])

\* the days of month m of year y
DaysIn(y, m) ==
    IF m = 2 THEN (IF (y % 4 = 0 /\ y % 100 # 0) \/ y % 400 = 0 THEN 29 ELSE 28)
    ELSE IF m \in {4, 6, 9, 11} THEN 30 ELSE 31

\* date.isoformat()
IsoFormat(dt) == DigitsOf(dt[2], 4) \o <<"-">> \o DigitsOf(dt[3], 2) \o <<"-">> \o DigitsOf(dt[4], 2)

\* _parse_date(value) for a date or a str: the date, or <<"ValueError">>.  Of the formats
\* tried for a str the model has YYYY-MM-DD, which isoformat writes.
_parse_date(value) ==
    IF value[1] = "date" THEN value
    ELSE LET v == Strip(value[2])
             iso == /\ Len(v) = 10 /\ v[5] = "-" /\ v[8] = "-"
                    /\ IsDigit(SubSeq(v, 1, 4)) /\ IsDigit(SubSeq(v, 6, 7))
                    /\ IsDigit(SubSeq(v, 9, 10))
             y == ParseInt(SubSeq(v, 1, 4))
             m == ParseInt(SubSeq(v, 6, 7))
             d == ParseInt(SubSeq(v, 9, 10))
         IN  IF iso /\ y >= 1 /\ m \in 1..12 /\ d >= 1 /\ d <= DaysIn(y, m)
             THEN <<"date", y, m, d>>
             ELSE <<"ValueError">>

\* date.today()
Today == <<"date", 2025, 1, 2>>

\* Expense.__post_init__ on the fields e: the pair of the fields as the method leaves them
\* and the error it raises, NoError if none.  A field assigned before the raise stays
\* assigned.
post_init(e) ==
    LET amount == IF e[1][1] = "str" THEN DecimalOf(e[1][2]) ELSE e[1]
        description == Strip(e[2])
        category == normalize_category(e[3])
        date == IF e[4] = None THEN Today ELSE _parse_date(e[4])
        notes == IF e[5] = None \/ Strip(e[5][2]) = <<>> THEN None ELSE <<"str", Strip(e[5][2])>>
    IN  IF amount[1] # "Decimal" THEN <<e, "ValueError">>
        ELSE IF amount[2] < 0 THEN <<Expense(amount, e[2], e[3], e[4], e[5]), "ValueError">>
        ELSE IF description = <<>>
        THEN <<Expense(amount, e[2], e[3], e[4], e[5]), "ValueError">>
        ELSE IF date[1] # "date"
        THEN <<Expense(amount, description, category, e[4], e[5]), "ValueError">>
        ELSE <<Expense(amount, description, category, date, notes), NoError>>

\* Expense.to_dict(): the values of the keys amount, description, category, date, notes
to_dict(e) ==
    << <<"str", DecimalStr(e[1])>>, <<"str", e[2]>>,
       IF e[3] = None THEN None ELSE <<"str", CategoryValue(e[3][1])>>,
       <<"str", IsoFormat(e[4])>>, e[5] >>

\* Expense.from_dict(data): the Expense, or <<error>> for the error raised
from_dict(data) ==
    LET amount == DecimalOf(data[1][2])
        category == normalize_category(data[3])
        date == _parse_date(data[4])
    IN  IF amount[1] # "Decimal" THEN <<"InvalidOperation">>
        ELSE IF date[1] # "date" THEN <<"ValueError">>
        ELSE LET made == post_init(Expense(amount, data[2][2], category, date, data[5]))
             IN  IF made[2] = NoError THEN made[1] ELSE <<made[2]>>

\* Expense.__eq__
ExpenseEq(a, b) ==
    /\ DecimalEq(a[1], b[1])
    /\ a[2] = b[2] /\ a[3] = b[3] /\ a[4] = b[4] /\ a[5] = b[5]

\* == of two lists of Expenses
ExpensesEq(xs, ys) ==
    Len(xs) = Len(ys) /\ \A k \in 1..Len(xs) : ExpenseEq(xs[k], ys[k])

---------------------------------------------------------------------------
(* save_to_json and load_from_json.  The content of a file is the sequence  *)
(* of the pieces json writes: <<"[">>, <<"]">>, <<",">>, the line feed       *)
(* <<"\n">> and <<"{", dict>> for one object; a writer's buffer reaches the  *)
(* file piece by piece.                                                      *)

\* what save_to_json writes for the list exs: one object a line, or json.dump(data, f, indent=2)
RECURSIVE Serialized(_, _)
Serialized(exs, ndjson) ==
    IF ndjson
    THEN (IF exs = <<>> THEN <<>>
          ELSE << <<"{", to_dict(Head(exs))>>, <<"\n">> >> \o Serialized(Tail(exs), TRUE))
    ELSE IF exs = <<>> THEN << <<"[">>, <<"]">> >>
    ELSE LET n == Len(exs)
             item(k) == << <<"\n">>, <<"{", to_dict(exs[k])>> >>
                           \o (IF k < n THEN << <<",">> >> ELSE << <<"\n">>, <<"]">> >>)
             items[k \in 0..n] == IF k = 0 THEN << <<"[">> >> ELSE items[k - 1] \o item(k)
         IN  items[n]

\* json.load / json.loads of the pieces: <<"list", dicts>>, <<"dict", dict>>, or
\* <<"JSONDecodeError">>
json_load(content) ==
    LET solid == SelectSeq(content, LAMBDA t : t[1] # "\n")
        n == Len(solid)
        inner == SubSeq(solid, 2, n - 1)
    IN  IF n = 1 /\ solid[1][1] = "{" THEN <<"dict", solid[1][2]>>
        ELSE IF /\ n >= 2 /\ solid[1][1] = "[" /\ solid[n][1] = "]"
                /\ (n > 2 => Len(inner) % 2 = 1)
                /\ \A k \in 1..Len(inner) : inner[k][1] = (IF k % 2 = 1 THEN "{" ELSE ",")
        THEN <<"list", [k \in 1..((Len(inner) + 1) \div 2) |-> inner[2 * k - 1][2]] \o <<>>>>
        ELSE <<"JSONDecodeError">>

\* [Expense.from_dict(item) for item in data]: <<"list", expenses>>, or <<error>>
FromDicts(data) ==
    IF data[1] = "JSONDecodeError" THEN data
    ELSE IF data[1] = "dict" THEN <<"AttributeError">>
    ELSE LET made == [k \in 1..Len(data[2]) |-> from_dict(data[2][k])] \o <<>>
             bad == {k \in 1..Len(made) : Len(made[k]) = 1}
         IN  IF bad = {} THEN <<"list", made>>
             ELSE made[CHOOSE k \in bad : \A j \in bad : k <= j]

\* the lines of a file: the pieces between the line feeds
RECURSIVE Lines(_, _)
Lines(content, cur) ==
    IF content = <<>> THEN (IF cur = <<>> THEN <<>> ELSE <<cur>>)
    ELSE IF Head(content)[1] = "\n"
         THEN (IF cur = <<>> THEN <<>> ELSE <<cur>>) \o Lines(Tail(content), <<>>)
         ELSE Lines(Tail(content), Append(cur, Head(content)))

\* load_from_json(path) for a file of this content: <<"list", expenses>>, or <<error>>
load_from_json(content) ==
    LET solid == SelectSeq(content, LAMBDA t : t[1] # "\n")
        first == IF solid = <<>> THEN "" ELSE solid[1][1]
        lines == Lines(content, <<>>)
        \* a dict on a line gives one Expense; anything else on it raises and is passed over
        one(k) == IF json_load(lines[k])[1] = "dict"
                  THEN from_dict(json_load(lines[k])[2]) ELSE <<"JSONDecodeError">>
        good == SelectSeq([k \in 1..Len(lines) |-> one(k)] \o <<>>, LAMBDA r : Len(r) = 5)
    IN  IF first = "[" THEN FromDicts(json_load(content))
        ELSE IF good # <<>> THEN <<"list", good>>
        ELSE FromDicts(json_load(content))

---------------------------------------------------------------------------
(* Saves in the background.  Every save_to_json of one path uses the same   *)
(* temporary name, path + ".tmp".  A file is a number into disk, the list   *)
(* of the contents of the files; a name that is not there is the number 0.  *)
(* A thread is at "idle" before save_to_json_async starts it, then at the   *)
(* step of save_to_json it takes next, and at "done" or "failed" after.     *)

\* the file written at this offset with one piece; the gap a write past the end leaves is
\* filled with <<"NUL">>
WrittenAt(content, at, piece) ==
    [k \in 1..(IF at + 1 > Len(content) THEN at + 1 ELSE Len(content)) |->
        IF k = at + 1 THEN piece
        ELSE IF k <= Len(content) THEN content[k]
        ELSE <<"NUL">>] \o <<>>

\* what thread t has to write
Pieces(t) == Serialized(job[t][1], job[t][2])

\* save_to_json_async(path, expenses, ndjson=ndjson): the thread is started
save_to_json_async(t, exps, ndjson) ==
    /\ pc[t] = "idle"
    /\ ~joined
    /\ pc' = [pc EXCEPT ![t] = "open"]
    /\ job' = [job EXCEPT ![t] = <<exps, ndjson>>]
    /\ UNCHANGED <<disk, at_tmp, at_path, fd, offset, err, joined, loaded>>
    /\ UNCHANGED otherThanSaves

\* the thread leaves save_to_json with an exception, which _worker prints
SaveFails(t, exception) ==
    /\ pc' = [pc EXCEPT ![t] = "failed"]
    /\ err' = [err EXCEPT ![t] = exception]

\* open(tmp, "w"): the file of that name emptied, or a new one; io_ok tells whether
\* the system lets the step succeed
save_open(t, io_ok) ==
    /\ pc[t] = "open"
    /\ IF ~io_ok THEN SaveFails(t, "OSError") /\ UNCHANGED <<disk, at_tmp, fd, offset>>
       ELSE /\ pc' = [pc EXCEPT ![t] = "write"]
            /\ disk' = IF at_tmp = 0 THEN Append(disk, <<>>)
                       ELSE [disk EXCEPT ![at_tmp] = <<>>]
            /\ at_tmp' = IF at_tmp = 0 THEN Len(disk) + 1 ELSE at_tmp
            /\ fd' = [fd EXCEPT ![t] = at_tmp']
            /\ offset' = [offset EXCEPT ![t] = 0]
            /\ err' = err
    /\ UNCHANGED <<at_path, job, joined, loaded>>
    /\ UNCHANGED otherThanSaves

\* the next piece reaches the file the thread has open, at the thread's own offset;
\* after the last one the file is closed
save_write(t, io_ok) ==
    /\ pc[t] = "write"
    /\ IF ~io_ok THEN SaveFails(t, "OSError") /\ UNCHANGED <<disk, offset>>
       ELSE IF offset[t] = Len(Pieces(t))
       THEN pc' = [pc EXCEPT ![t] = "replace"] /\ UNCHANGED <<disk, offset, err>>
       ELSE /\ disk' = [disk EXCEPT ![fd[t]] = WrittenAt(disk[fd[t]], offset[t], Pieces(t)[offset[t] + 1])]
            /\ offset' = [offset EXCEPT ![t] = offset[t] + 1]
            /\ UNCHANGED <<pc, err>>
    /\ UNCHANGED <<at_tmp, at_path, fd, job, joined, loaded>>
    /\ UNCHANGED otherThanSaves

\* os.replace(str(tmp), str(p))
save_replace(t, io_ok) ==
    /\ pc[t] = "replace"
    /\ IF at_tmp = 0 THEN SaveFails(t, "FileNotFoundError") /\ UNCHANGED <<at_tmp, at_path>>
       ELSE IF ~io_ok THEN SaveFails(t, "OSError") /\ UNCHANGED <<at_tmp, at_path>>
       ELSE /\ pc' = [pc EXCEPT ![t] = "done"]
            /\ at_path' = at_tmp
            /\ at_tmp' = 0
            /\ err' = err
    /\ UNCHANGED <<disk, fd, offset, job, joined, loaded>>
    /\ UNCHANGED otherThanSaves

\* wait_for_background_saves() returns: every thread started has ended
wait_for_background_saves ==
    /\ ~joined
    /\ \E t \in Threads : pc[t] # "idle"
    /\ \A t \in Threads : pc[t] \in {"idle", "done", "failed"}
    /\ joined' = TRUE
    /\ UNCHANGED <<disk, at_tmp, at_path, pc, fd, offset, job, err, loaded>>
    /\ UNCHANGED otherThanSaves

\* loaded = load_from_json(path), after the wait
load_saved ==
    /\ joined
    /\ loaded = None
    /\ loaded' = IF at_path = 0 THEN << <<"FileNotFoundError">> >>
                 ELSE <<load_from_json(disk[at_path])>>
    /\ UNCHANGED <<disk, at_tmp, at_path, pc, fd, offset, job, err, joined>>
    /\ UNCHANGED otherThanSaves

\* the Expenses of the saves, as __post_init__ leaves them
SaveExpenses ==
    << Expense(<<"Decimal", 1250, 2>>, <<"A", "b">>, <<"FOOD">>, <<"date", 2025, 12, 1>>,
               <<"str", <<"b">>>>),
       Expense(<<"Decimal", 5, 0>>, <<"b">>, None, <<"date", 2025, 1, 2>>, None),
       Expense(<<"Decimal", 0, 1>>, <<"a", " ", "b">>, <<"OTHER">>, <<"date", 2024, 2, 29>>,
               None) >>

\* (expenses, ndjson) of the saves
SaveJobs ==
    << << <<>>, FALSE >>,
       << <<>>, TRUE >>,
       << <<SaveExpenses[1]>>, FALSE >>,
       << <<SaveExpenses[1], SaveExpenses[2]>>, TRUE >>,
       << <<SaveExpenses[3], SaveExpenses[2]>>, FALSE >>,
       << <<SaveExpenses[3]>>, TRUE >> >>

\* what an earlier save left at the path
PreviousContent == Serialized(<<SaveExpenses[2]>>, FALSE)

\* no save yet; the path has no file, or the file of an earlier save
InitSave ==
    /\ movies = <<>>
    /\ HAS_RAPIDFUZZ = FALSE /\ rprocess = FALSE
    /\ NoCall
    /\ NoSanitize
    /\ NoFavorites
    /\ NoManager
    /\ \/ disk = <<>> /\ at_path = 0
       \/ disk = <<PreviousContent>> /\ at_path = 1
    /\ at_tmp = 0
    /\ pc = [t \in Threads |-> "idle"]
    /\ fd = [t \in Threads |-> 0]
    /\ offset = [t \in Threads |-> 0]
    /\ job = [t \in Threads |-> <<>>]
    /\ err = [t \in Threads |-> NoError]
    /\ joined = FALSE
    /\ loaded = None

StartSave ==
    \E t \in Threads, j \in 1..Len(SaveJobs) : save_to_json_async(t, SaveJobs[j][1], SaveJobs[j][2])

StepSave ==
    \E t \in Threads, io_ok \in BOOLEAN :
        save_open(t, io_ok) \/ save_write(t, io_ok) \/ save_replace(t, io_ok)

NextSave ==
    \/ StartSave
    \/ StepSave
    \/ wait_for_background_saves
    \/ load_saved

SpecSave == InitSave /\ [][NextSave]_vars

---------------------------------------------------------------------------
(* The ExpenseManager.  The manager, its cache and the callers hold the     *)
(* same Expense objects: an object is its place in `objects`, which has its *)
(* fields.  A call leaves <<"returns", value>> or <<"raises", error>> in     *)
(* last_return.                                                             *)

\* the order of the characters of a description
CharOrder == <<" ", "A", "B", "K", "a", "b", "k">>

\* s < t for two texts
TextLt(s, t) ==
    LET rank(c) == CHOOSE i \in 1..Len(CharOrder) : CharOrder[i] = c
    IN  \E i \in 1..(Len(t)) :
            /\ \A j \in 1..(i - 1) : j <= Len(s) /\ s[j] = t[j]
            /\ (i > Len(s) \/ (i - 1 < Len(s) /\ rank(s[i]) < rank(t[i])))

\* a < b for the fields of two Expenses, by (date, amount, description.lower()); comparing
\* a date with a str raises TypeError, which Comparable tells apart
Comparable(a, b) == a[4][1] = "date" /\ b[4][1] = "date"

KeyLt(a, b) ==
    LET da == <<a[4][2], a[4][3], a[4][4]>>
        db == <<b[4][2], b[4][3], b[4][4]>>
    IN  \/ TupleGt(db, da)
        \/ da = db /\ DecimalLt(a[1], b[1])
        \/ da = db /\ DecimalEq(a[1], b[1]) /\ TextLt(Lower(a[2]), Lower(b[2]))

\* sorted(self.expenses, key=...): ascending by key, equal keys in their order in the list
SortedByKey(objs, list) ==
    LET n == Len(list)
        rank == [k \in 1..n |->
                   1 + Cardinality({j \in 1..n :
                           \/ KeyLt(objs[list[j]], objs[list[k]])
                           \/ (~KeyLt(objs[list[k]], objs[list[j]]) /\ j < k)})] \o <<>>
    IN  IF n <= 1 THEN list ELSE [p \in 1..n |-> list[CHOOSE k \in 1..n : rank[k] = p]] \o <<>>

\* list_sorted() on this state: the pair of _sorted_cache after the call and what the
\* call leaves in last_return
ListSorted(objs, list, cache) ==
    IF cache # None THEN <<cache, <<"returns", cache[1]>>>>
    ELSE IF \E j, k \in 1..Len(list) : j # k /\ ~Comparable(objs[list[j]], objs[list[k]])
    THEN <<None, <<"raises", "TypeError">>>>
    ELSE << <<SortedByKey(objs, list)>>, <<"returns", SortedByKey(objs, list)>> >>

\* ExpenseManager.list_sorted()
list_sorted ==
    /\ last_call' = <<"list_sorted">>
    /\ \E r \in {ListSorted(objects, expenses, sorted_cache)} :
           sorted_cache' = r[1] /\ last_return' = r[2]
    /\ UNCHANGED <<objects, expenses>>
    /\ UNCHANGED otherThanManager

\* ExpenseManager.add(expense), expense a new object with these fields
manager_add(fields) ==
    /\ last_call' = <<"add", fields>>
    /\ objects' = Append(objects, fields)
    /\ expenses' = Append(expenses, Len(objects) + 1)
    /\ sorted_cache' = None
    /\ last_return' = <<"returns", None>>
    /\ UNCHANGED otherThanManager

\* ExpenseManager.remove(expense): list.remove takes out the first element equal to it
manager_remove(expense) ==
    /\ last_call' = <<"remove", expense>>
    /\ LET equal == {k \in 1..Len(expenses) :
                        ExpenseEq(objects[expenses[k]], objects[expense])}
           first == CHOOSE k \in equal : \A j \in equal : k <= j
       IN  IF equal = {}
           THEN /\ last_return' = <<"raises", "ValueError">>
                /\ UNCHANGED <<expenses, sorted_cache>>
           ELSE /\ expenses' = SubSeq(expenses, 1, first - 1)
                                  \o SubSeq(expenses, first + 1, Len(expenses))
                /\ sorted_cache' = None
                /\ last_return' = <<"returns", None>>
    /\ UNCHANGED objects
    /\ UNCHANGED otherThanManager

\* ExpenseManager.clear()
manager_clear ==
    /\ last_call' = <<"clear">>
    /\ expenses' = <<>>
    /\ sorted_cache' = None
    /\ last_return' = <<"returns", None>>
    /\ UNCHANGED objects
    /\ UNCHANGED otherThanManager

\* Expense.update(**kwargs) on the fields e, kwargs the tuple of the five keys, <<>> for a
\* key that is not given and <<value>> for one that is: post_init of the fields set
Expense_update(e, kwargs) ==
    post_init([k \in 1..5 |-> IF kwargs[k] = <<>> THEN e[k] ELSE kwargs[k][1]] \o <<>>)

\* ExpenseManager.update(index, **kwargs)
manager_update(index, kwargs) ==
    /\ last_call' = <<"update", index, kwargs>>
    /\ \E l \in {ListSorted(objects, expenses, sorted_cache)} :
         IF l[2][1] = "raises"
         THEN sorted_cache' = l[1] /\ last_return' = l[2] /\ objects' = objects
         ELSE IF index < 0 \/ index >= Len(l[2][2])
         THEN sorted_cache' = l[1] /\ last_return' = <<"returns", FALSE>> /\ objects' = objects
         ELSE \E u \in {Expense_update(objects[l[2][2][index + 1]], kwargs)} :
                 /\ objects' = [objects EXCEPT ![l[2][2][index + 1]] = u[1]]
                 /\ IF u[2] # NoError
                    THEN sorted_cache' = l[1] /\ last_return' = <<"raises", u[2]>>
                    ELSE sorted_cache' = None /\ last_return' = <<"returns", TRUE>>
    /\ UNCHANGED expenses
    /\ UNCHANGED otherThanManager

\* the Expenses handed to add: two of one date and amount, and one of an earlier date
ManagerExpenses ==
    << Expense(<<"Decimal", 5, 0>>, <<"b">>, None, <<"date", 2025, 1, 2>>, None),
       Expense(<<"Decimal", 50, 1>>, <<"A", "b">>, <<"FOOD">>, <<"date", 2025, 1, 2>>, None),
       Expense(<<"Decimal", 7, 0>>, <<"a">>, None, <<"date", 2025, 1, 1>>, None) >>

\* the keyword arguments of update: (amount, description, category, date, notes)
UpdateKwargs ==
    << << << <<"Decimal", 3, 0>> >>, <<>>, <<>>, <<>>, <<>> >>,
       << << <<"Decimal", 0 - 1, 0>> >>, <<>>, <<>>, <<>>, <<>> >>,
       << << <<"Decimal", 9, 0>> >>, << <<" ">> >>, <<>>, <<>>, <<>> >>,
       << <<>>, <<>>, <<>>, << <<"str", <<"x">>>> >>, <<>> >>,
       << <<>>, <<>>, <<>>, <<>>, <<>> >> >>

\* how many Expense objects the callers of the manager make
MaxObjects == 2

InitManager ==
    /\ movies = <<>>
    /\ HAS_RAPIDFUZZ = FALSE /\ rprocess = FALSE
    /\ NoCall
    /\ NoSanitize
    /\ NoFavorites
    /\ NoSaves
    /\ NoManager

Add ==
    /\ Len(objects) < MaxObjects
    /\ \E n \in 1..Len(ManagerExpenses) : manager_add(ManagerExpenses[n])

Remove == \E expense \in 1..Len(objects) : manager_remove(expense)

Update ==
    \E index \in (0 - 1)..Len(expenses), k \in 1..Len(UpdateKwargs) :
        manager_update(index, UpdateKwargs[k])

NextManager ==
    \/ Add
    \/ Remove
    \/ Update
    \/ manager_clear
    \/ list_sorted

SpecManager == InitManager /\ [][NextManager]_vars

---------------------------------------------------------------------------
(* What the properties below speak of *)

\* the movie at place k of the returned list
Returned(k) == movies[ret[k]]

\* the key (name, year) of the movie at position i of the collection
KeyAt(i) == <<movies[i].name, movies[i].year>>

\* text g occurs, case aside, in the genre or the category of m
InGenreOrCategory(g, m) ==
    \/ Contains(Lower(g), Lower(m.genre))
    \/ Contains(Lower(g), Lower(m.category))

\* movie m satisfies every filter supplied in the arguments a
Satisfies(m, a) ==
    /\ a.genre # None => InGenreOrCategory(Some(a.genre), m)
    /\ a.category # None => InGenreOrCategory(Some(a.category), m)
    /\ a.min_rating # None => m.rating >= Some(a.min_rating)
    /\ a.year # None => m.year = Some(a.year)
    /\ a.year_from # None => m.year >= Some(a.year_from)
    /\ a.year_to # None => m.year <= Some(a.year_to)

\* the entry of the merged set at place k came from the fuzzy stage alone
FuzzyOnly(k) == best[k].m \in Range(subset)

\* the merged priority of the movie at place k of the returned list
ReturnedPriority(k) == best[CHOOSE e \in 1..Len(best) : best[e].m = ret[k]].p

\* the returned list is the whole merged set
Untruncated == Len(ret) = Len(best)

\* the fuzzy stage ran in the call
FuzzyRan == args.enable_fuzzy /\ HAS_RAPIDFUZZ /\ QLower(args) # <<>>

---------------------------------------------------------------------------
(* C1 *)

\* C1: no two records of the list find_matches returns share the key
\* (name, year), whichever stages matched them.
C1_NoSharedKey ==
    called =>
        \A i, j \in 1..Len(ret) : i # j => KeyAt(ret[i]) # KeyAt(ret[j])

\* two records of the collection share a key and the call returned that key
C1_Witness ==
    /\ called
    /\ \E i, j \in 1..Len(movies) :
          /\ i # j
          /\ KeyAt(i) = KeyAt(j)
          /\ Satisfies(movies[j], args)
          /\ i \in Range(ret)

---------------------------------------------------------------------------
(* C2 *)

\* C2: every record find_matches returns satisfies every supplied filter,
\* whichever stage added it: genre and category as case-insensitive substrings
\* of the record's genre or category, rating at least min_rating, year equal
\* to year, at least year_from and at most year_to.
C2_ReturnedSatisfyFilters ==
    called => \A k \in 1..Len(ret) : Satisfies(Returned(k), args)

\* a filter rejected some record and the fuzzy stage added a returned one
C2_Witness ==
    /\ called
    /\ HasFilters(args)
    /\ \E i \in 1..Len(movies) : ~Satisfies(movies[i], args)
    /\ \E k \in 1..Len(ret) : ret[k] \in Range(subset)

---------------------------------------------------------------------------
(* C3 *)

\* C3: for a query that after sanitizing is all digits, find_matches returns
\* exactly the records passing the filters whose year is that integer, and no
\* other stage contributes a record.
C3_NumericQueryYearOnly ==
    called /\ IsDigit(QLower(args)) =>
        /\ \A k \in 1..Len(ret) : Returned(k).year = ParseInt(QLower(args))
        /\ Untruncated =>
              \A i \in 1..Len(movies) :
                  Satisfies(movies[i], args) /\ movies[i].year = ParseInt(QLower(args))
                      => \E k \in 1..Len(ret) : KeyAt(ret[k]) = KeyAt(i)

---------------------------------------------------------------------------
(* C4 *)

\* some token of the query is a substring of the lowercased name of m
TokenInName(m, a) ==
    \E t \in Range(Tokens(QLower(a))) : Contains(t, Lower(m.name))

\* the movie at position i is in the merged set with a priority of at least
\* 900 that is above the priority of every fuzzy-only entry
TierAboveFuzzy(i) ==
    \E k \in 1..Len(best) :
        /\ KeyAt(best[k].m) = KeyAt(i)
        /\ best[k].p >= 900
        /\ \A f \in 1..Len(best) : FuzzyOnly(f) => best[k].p > best[f].p

\* C4 as stated: for any query, a record passing the filters with a query
\* token that is a substring of its lowercased name gets a merged priority of
\* at least 900, above that of every fuzzy-only record.
C4_TokenInNameIsTier ==
    called =>
        \A i \in 1..Len(movies) :
            Satisfies(movies[i], args) /\ TokenInName(movies[i], args) => TierAboveFuzzy(i)

\* C4, amended: for any query that is not all digits, a record passing the
\* filters with a query token that is a substring of its lowercased name gets
\* a merged priority of at least 900, above that of every fuzzy-only record.
C4_TokenInNameIsTierUnlessNumeric ==
    called /\ ~IsDigit(QLower(args)) =>
        \A i \in 1..Len(movies) :
            Satisfies(movies[i], args) /\ TokenInName(movies[i], args) => TierAboveFuzzy(i)

\* a token of a non-numeric query is inside a name only, and a fuzzy-only entry is merged too
C4_Witness ==
    /\ called
    /\ ~IsDigit(QLower(args))
    /\ \E i \in 1..Len(movies) :
          /\ Satisfies(movies[i], args)
          /\ TokenInName(movies[i], args)
          /\ \A t \in Range(Tokens(QLower(args))) :
                ~Contains(t, Lower(movies[i].genre)) /\ ~Contains(t, Lower(movies[i].category))
          /\ ~\E t \in Range(Tokens(QLower(args))) : StartsWith(Lower(movies[i].name), t)
    /\ \E f \in 1..Len(best) : FuzzyOnly(f)

---------------------------------------------------------------------------
(* C5 *)

\* the key of the default order for the movie at place k of the returned list
DefaultKey(k) ==
    <<ReturnedPriority(k), Returned(k).rating, Returned(k).box_office_millions>>

\* C5: with no explicit sort key the returned list is in descending order of
\* (priority, rating, revenue); hence no fuzzy-only record stands before a
\* tier-matched one, and the cut to max_results never drops a tier-matched
\* record while it keeps a fuzzy-only one.
C5_DefaultOrder ==
    called /\ args.sort_by = None =>
        /\ \A k \in 1..(Len(ret) - 1) : ~TupleGt(DefaultKey(k + 1), DefaultKey(k))
        /\ \A k, f \in 1..Len(ret) :
              ret[f] \in Range(subset) /\ ret[k] \notin Range(subset) => k < f
        /\ (\E f \in 1..Len(ret) : ret[f] \in Range(subset)) =>
              \A k \in 1..Len(best) : ~FuzzyOnly(k) => best[k].m \in Range(ret)

\* a tier-matched and a fuzzy-only record are returned and the cut dropped a third
C5_Witness ==
    /\ called
    /\ args.sort_by = None
    /\ Len(ret) < Len(best)
    /\ \E k, f \in 1..Len(ret) :
          /\ ret[k] \notin Range(subset)
          /\ ret[f] \in Range(subset)
          /\ Returned(f).rating > Returned(k).rating

---------------------------------------------------------------------------
(* C6 *)

\* C6: for max_results above 0 the returned list has at most max_results
\* records and is the first max_results records of the list the same call
\* returns with max_results = 0.
C6_CutIsPrefix ==
    called /\ args.max_results > 0 =>
        \A full \in {FindMatches(movies, HAS_RAPIDFUZZ, rprocess,
                                 [args EXCEPT !.max_results = 0], mistyped, scores).ret} :
            /\ Len(ret) <= args.max_results
            /\ Len(ret) = Len(full) \/ Len(ret) = args.max_results
            /\ ret = SubSeq(full, 1, Len(ret))

\* the cut dropped a record
C6_Witness ==
    /\ called
    /\ args.max_results > 0
    /\ Len(best) > args.max_results
    /\ Len(ret) = args.max_results

---------------------------------------------------------------------------
(* C7 *)

\* the query is empty, a filter is present and every other argument is at its default
EmptyQueryWithFilters ==
    /\ QueryOf(args) = <<>>
    /\ \/ args.genre \notin {None, << <<>> >>}
       \/ args.category \notin {None, << <<>> >>}
       \/ args.min_rating # None
       \/ args.year # None
       \/ args.year_from # None
       \/ args.year_to # None
    /\ args.max_results = DEFAULT_MAX_RESULTS
    /\ args.enable_fuzzy
    /\ args.fuzzy_threshold = DEFAULT_FUZZY_THRESHOLD
    /\ args.sort_by = None

\* the key of the order by rating and revenue, for the movie at position i
RatingRevenueAt(i) == <<movies[i].rating, movies[i].box_office_millions>>

\* the returned list is in descending order of (rating, revenue), every record of priority 1000
ByRatingRevenueAt1000 ==
    /\ \A k \in 1..Len(ret) : ReturnedPriority(k) = 1000
    /\ \A k \in 1..(Len(ret) - 1) :
          ~TupleGt(RatingRevenueAt(ret[k + 1]), RatingRevenueAt(ret[k]))

\* C7 as stated: for an empty query, a filter and the other arguments at
\* their defaults, find_matches returns all the records passing the filters,
\* each of priority 1000, in descending order of (rating, revenue).
C7_AllPassingReturned ==
    called /\ EmptyQueryWithFilters =>
        /\ \A k \in 1..Len(ret) : Satisfies(Returned(k), args)
        /\ \A i \in 1..Len(movies) :
              Satisfies(movies[i], args) => \E k \in 1..Len(ret) : KeyAt(ret[k]) = KeyAt(i)
        /\ ByRatingRevenueAt1000

\* C7, amended: for an empty query, a filter and the other arguments at their
\* defaults, find_matches returns records passing the filters, each of
\* priority 1000, in descending order of (rating, revenue), and at most the
\* default max_results (50) of them: a passing record whose key is not
\* returned is left out only by a full list whose last record it does not precede.
C7_PassingReturnedUpToDefaultMax ==
    called /\ EmptyQueryWithFilters =>
        /\ \A k \in 1..Len(ret) : Satisfies(Returned(k), args)
        /\ Len(ret) <= DEFAULT_MAX_RESULTS
        /\ \A i \in 1..Len(movies) :
              Satisfies(movies[i], args) =>
                  \/ \E k \in 1..Len(ret) : KeyAt(ret[k]) = KeyAt(i)
                  \/ /\ Len(ret) = DEFAULT_MAX_RESULTS
                     /\ ~TupleGt(RatingRevenueAt(i), RatingRevenueAt(ret[Len(ret)]))
        /\ ByRatingRevenueAt1000

\* more records pass the filter than the default max_results, and some fail it
C7_Witness ==
    /\ called
    /\ EmptyQueryWithFilters
    /\ Len(ret) = DEFAULT_MAX_RESULTS
    /\ Len(best) > DEFAULT_MAX_RESULTS
    /\ \E i \in 1..Len(movies) : ~Satisfies(movies[i], args)

---------------------------------------------------------------------------
(* C8 *)

\* the score the scorer gave the candidate at place j of candidate_subset
ScoreOf(j) == scores[SearchText(movies[subset[j]])]

\* C8: when the fuzzy stage runs, a candidate it scores is merged exactly
\* when its score is at least fuzzy_threshold, a score equal to the threshold
\* included; its priority is then the score truncated to an integer, and it
\* is in the returned list unless the cut to max_results dropped records.
C8_ThresholdBoundary ==
    called /\ FuzzyRan =>
        \A j \in 1..Len(subset) :
            /\ (2 * args.fuzzy_threshold <= ScoreOf(j))
                  <=> (\E k \in 1..Len(best) : KeyAt(best[k].m) = KeyAt(subset[j]))
            /\ \A k \in 1..Len(best) :
                  KeyAt(best[k].m) = KeyAt(subset[j]) =>
                      2 * best[k].p <= ScoreOf(j) /\ ScoreOf(j) < 2 * best[k].p + 2
            /\ Untruncated =>
                  ((2 * args.fuzzy_threshold <= ScoreOf(j))
                      <=> (\E k \in 1..Len(ret) : KeyAt(ret[k]) = KeyAt(subset[j])))

\* one candidate scored exactly the threshold and is returned, another scored
\* one point less and is not
C8_Witness ==
    /\ called
    /\ FuzzyRan
    /\ \E j, l \in 1..Len(subset) :
          /\ ScoreOf(j) = 2 * args.fuzzy_threshold
          /\ subset[j] \in Range(ret)
          /\ ScoreOf(l) = 2 * (args.fuzzy_threshold - 1)
          /\ subset[l] \notin Range(ret)

---------------------------------------------------------------------------
(* C9 *)

\* the movie at position i passes the filters and no text stage matched its key
UnmatchedCandidate(i) ==
    /\ Satisfies(movies[i], args)
    /\ ~\E k \in 1..Len(best) : KeyAt(best[k].m) = KeyAt(i) /\ best[k].p > 100

\* C9: in a call whose fuzzy stage runs, the scorer is given at most
\* FUZZY_MAX_CANDIDATES candidates: they are candidates that passed the
\* filters and that no text stage matched, in descending order of (rating,
\* revenue), and any such candidate not given to the scorer is left out only
\* by a full set whose last candidate it does not precede.
C9_ScorerCap ==
    called /\ FuzzyRan =>
        /\ Len(subset) <= FUZZY_MAX_CANDIDATES
        /\ \A j \in 1..Len(subset) : UnmatchedCandidate(subset[j])
        /\ \A j \in 1..(Len(subset) - 1) :
              /\ subset[j] # subset[j + 1]
              /\ ~TupleGt(RatingRevenueAt(subset[j + 1]), RatingRevenueAt(subset[j]))
        /\ \A i \in 1..Len(movies) :
              UnmatchedCandidate(i) =>
                  \/ \E j \in 1..Len(subset) : subset[j] = i
                  \/ /\ Len(subset) = FUZZY_MAX_CANDIDATES
                     /\ ~TupleGt(RatingRevenueAt(i), RatingRevenueAt(subset[Len(subset)]))

\* more candidates than the cap are unmatched, and the scorer got the cap
C9_Witness ==
    /\ called
    /\ FuzzyRan
    /\ Len(subset) = FUZZY_MAX_CANDIDATES
    /\ \E i \in 1..Len(movies) :
          UnmatchedCandidate(i) /\ \A j \in 1..Len(subset) : subset[j] # i

---------------------------------------------------------------------------
(* C10 *)

\* the key C10 gives the order by year, for the movie at place k of the returned list
YearKey(k) == <<Returned(k).year, Returned(k).rating, Returned(k).box_office_millions>>

\* C10: with sort_by "year", in any letter case, the returned list is in
\* descending order of year, equal years in descending order of rating and
\* then of revenue.
C10_YearOrder ==
    called /\ args.sort_by \in {<<"year">>, <<"Year">>} =>
        \A k \in 1..(Len(ret) - 1) : ~TupleGt(YearKey(k + 1), YearKey(k))

---------------------------------------------------------------------------
(* C11 *)

\* C11: find_matches is deterministic: a call made again on the same
\* collection with the same arguments, the scorer answering the same, returns
\* the same records in the same order.
C11_SameCallSameResult ==
    [][(/\ called /\ called'
        /\ movies' = movies
        /\ args' = args /\ mistyped' = mistyped /\ scores' = scores)
       => (ret' = ret /\ raised' = raised /\ best' = best)]_vars

\* a call was made a second time, and it returned two records in another order
\* than that of the collection, one of them found by the scorer alone
C11_Witness ==
    /\ called
    /\ calls = 2
    /\ Len(ret) >= 2
    /\ ret[1] > ret[2]
    /\ \E k \in 1..Len(best) : FuzzyOnly(k) /\ best[k].m \in Range(ret)

---------------------------------------------------------------------------
(* C12 *)

\* C12: a call of find_matches whose query is not text fails with a TypeError
\* that reaches the caller; it returns no result list.
C12_NonTextQueryRaises ==
    called /\ mistyped = "query_text" => raised = "TypeError"

---------------------------------------------------------------------------
(* C13 *)

\* what the call returns without the parameter that was of a wrong type
WithoutMistyped == FindMatches(movies, HAS_RAPIDFUZZ, rprocess, args, "", scores)

\* C13: a call of find_matches with min_rating, year, year_from or year_to of a
\* wrong type does not fail and returns what the same call returns without
\* that parameter.
C13_WrongTypeAsAbsent ==
    called /\ mistyped \in {"min_rating", "year", "year_from", "year_to"} =>
        /\ raised = NoError
        /\ ret = WithoutMistyped.ret

---------------------------------------------------------------------------
(* C14 *)

\* the fuzzy stage ran and every call of the scorer raised
ScorerRaised ==
    /\ FuzzyRan
    /\ mistyped = ""
    /\ subset # <<>>
    /\ \A t \in DOMAIN scores : scores[t] = Raise

\* what the call returns with enable_fuzzy = False
WithFuzzyDisabled ==
    FindMatches(movies, HAS_RAPIDFUZZ, rprocess, [args EXCEPT !.enable_fuzzy = FALSE],
                mistyped, scores)

\* C14: when the scorer raises, in its batch form or pair by pair, find_matches
\* does not fail and returns what the same call returns with fuzzy matching
\* disabled, whatever the fuzzy_threshold.
C14_ScorerRaiseAsFuzzyOff ==
    called /\ ScorerRaised =>
        /\ raised = NoError
        /\ ret = WithFuzzyDisabled.ret

---------------------------------------------------------------------------
(* C15 *)

\* C15: a call of find_matches, whatever its arguments and its outcome, leaves
\* the collection as it was: the same records in the same order, with the
\* same name, year, genre, category, rating and revenue.
C15_CollectionUnchanged ==
    [][calls' = calls + 1 => movies' = movies]_vars

\* a call returned a cut list whose first record is not the first of the collection
C15_Witness ==
    /\ called
    /\ Len(ret) >= 1
    /\ ret[1] # 1
    /\ Len(ret) < Len(best)

---------------------------------------------------------------------------
(* C16 *)

\* the first n characters of the text s, all of s when it has fewer
FirstChars(s, n) == IF n <= 0 THEN <<>> ELSE SubSeq(s, 1, IF n < Len(s) THEN n ELSE Len(s))

\* the text s without its leading and its trailing whitespace
Trimmed(s) ==
    IF \A k \in 1..Len(s) : s[k] \in WhitespaceChars THEN <<>>
    ELSE SubSeq(s, CHOOSE i \in 1..Len(s) :
                        /\ s[i] \notin WhitespaceChars
                        /\ \A k \in 1..(i - 1) : s[k] \in WhitespaceChars,
                   CHOOSE j \in 1..Len(s) :
                        /\ s[j] \notin WhitespaceChars
                        /\ \A k \in (j + 1)..Len(s) : s[k] \in WhitespaceChars)

\* the text s without its control characters
ControlFree(s) == SelectSeq(s, LAMBDA c : c \notin ControlChars)

\* C16: for every text q and every max_length n, sanitize_query(q, n) is q
\* without its control characters, then trimmed of leading and trailing
\* whitespace, then cut to its first n characters; it is no longer than n and
\* holds no control character.
C16_SanitizeContract ==
    text_out # None =>
        /\ Some(text_out) = FirstChars(Trimmed(ControlFree(text_in)), length_in)
        /\ Len(Some(text_out)) <= length_in
        /\ \A k \in 1..Len(Some(text_out)) : Some(text_out)[k] \notin ControlChars

\* the same for max_length of zero or more: what holds of the function
SanitizeContractFromZero ==
    text_out # None /\ length_in >= 0 => C16_SanitizeContract

---------------------------------------------------------------------------
(* What the properties of the favorites and of add_movie speak of *)

\* the step is a call of the function fn
CallOf(fn) == last_call'[1] = fn /\ vars' # vars

\* the favorites hold an entry of this name, letter case aside, and this year
IsFavorite(favs, name, year) ==
    \E k \in 1..Len(favs) : Lower(favs[k].name) = Lower(name) /\ favs[k].year = year

\* the collection holds a movie of this name, letter case aside, and this year
InDataset(ms, name, year) ==
    \E i \in 1..Len(ms) : Lower(ms[i].name) = Lower(name) /\ ms[i].year = year

\* no two entries of the favorites share the lowercased name and the year
NoTwoFavoritesShareKey(favs) ==
    \A j, k \in 1..Len(favs) :
        j # k => ~(Lower(favs[j].name) = Lower(favs[k].name) /\ favs[j].year = favs[k].year)

\* no two movies of the collection share the name and the year
NoTwoMoviesShareKey(ms) ==
    \A i, j \in 1..Len(ms) : i # j => <<ms[i].name, ms[i].year>> # <<ms[j].name, ms[j].year>>

---------------------------------------------------------------------------
(* C17 *)

\* C17: add_favorite for a name and year already in the favorites, the name
\* compared without regard to letter case, returns False and leaves the
\* favorites as they were; and after any calls of add_favorite and
\* remove_favorite from empty favorites no two entries share the lowercased
\* name and the year.
C17_NoDuplicateFavorite ==
    [][/\ (CallOf("add_favorite") /\ IsFavorite(favorites, last_call'[2], last_call'[3]))
          => (last_return' = FALSE /\ favorites' = favorites
              /\ favorites_set' = favorites_set)
       /\ NoTwoFavoritesShareKey(favorites')]_vars

\* add_favorite has turned down a name that is a favorite in another spelling, for a
\* movie of the collection and with a save that would have succeeded
C17_Witness ==
    /\ last_call # <<>>
    /\ last_call[1] = "add_favorite"
    /\ last_call[4] /\ last_call[5]
    /\ last_return = FALSE
    /\ InDataset(movies, last_call[2], last_call[3])
    /\ \E k \in 1..Len(favorites) :
          /\ Lower(favorites[k].name) = Lower(last_call[2])
          /\ favorites[k].name # last_call[2]
          /\ favorites[k].year = last_call[3]

---------------------------------------------------------------------------
(* C18 *)

\* C18: add_favorite returns False and leaves the favorites list and the
\* lookup set as they were before the call when the save fails; it returns
\* False, changes neither and does not write the file when the movie is not
\* in the dataset.
C18_FailedAddChangesNothing ==
    [][/\ (CallOf("add_favorite") /\ ~last_call'[4])
          => (last_return' = FALSE /\ favorites' = favorites
              /\ favorites_set' = favorites_set)
       /\ (CallOf("add_favorite") /\ ~InDataset(movies, last_call'[2], last_call'[3]))
          => (last_return' = FALSE /\ favorites' = favorites
              /\ favorites_set' = favorites_set /\ file' = file)]_vars

\* add_favorite got as far as the save, which failed, with another favorite in the list
C18_Witness ==
    /\ last_call # <<>>
    /\ last_call[1] = "add_favorite"
    /\ ~last_call[4] /\ last_call[5]
    /\ last_return = FALSE
    /\ InDataset(movies, last_call[2], last_call[3])
    /\ ~IsFavorite(favorites, last_call[2], last_call[3])
    /\ Len(favorites) >= 1

---------------------------------------------------------------------------
(* C19 *)

\* C19: while a favorite that add_favorite accepted is in the favorites and
\* its movie is in the dataset, get_favorite_movies() holds the dataset's
\* record of that movie, however the name was spelled in the call.
C19_FavoriteMoviesHoldFavorite ==
    \A k \in 1..Len(favorites) :
        InDataset(movies, favorites[k].name, favorites[k].year) =>
            \E j \in Range(get_favorite_movies(movies, favorites)) :
                /\ Lower(movies[j].name) = Lower(favorites[k].name)
                /\ movies[j].year = favorites[k].year

---------------------------------------------------------------------------
(* C20 *)

\* the dict handed to add_movie fails the schema: it is no dict, lacks a required key,
\* has an empty name, or a name, year, revenue or rating of a wrong type
FailsSchema(movie, wrong) ==
    \/ wrong \cap {"movie", "name", "year", "box_office_millions", "rating"} # {}
    \/ \E key \in RequiredKeys : key \notin DOMAIN movie
    \/ movie.name = <<>>

\* C20: add_movie returns False and leaves the collection as it was when the
\* movie fails the schema or a movie of the same name, letter case aside, and
\* year is in the collection; so after any calls of add_movie on a collection
\* in which no two movies share (name, year), no two movies share it.
C20_AddMovieKeepsKeysUnique ==
    [][/\ (/\ CallOf("add_movie")
           /\ \/ FailsSchema(last_call'[2], last_call'[3])
              \/ InDataset(movies, last_call'[2].name, last_call'[2].year))
          => (last_return' = FALSE /\ movies' = movies)
       /\ NoTwoMoviesShareKey(movies')]_vars

\* add_movie has turned down a well-formed movie whose name is in the collection in
\* another spelling
C20_Witness ==
    /\ last_call # <<>>
    /\ last_call[1] = "add_movie"
    /\ ~FailsSchema(last_call[2], last_call[3])
    /\ last_return = FALSE
    /\ \E i \in 1..Len(movies) :
          /\ Lower(movies[i].name) = Lower(last_call[2].name)
          /\ movies[i].name # last_call[2].name
          /\ movies[i].year = last_call[2].year
    /\ \A i \in 1..Len(movies) : movies[i].name # last_call[2].name

---------------------------------------------------------------------------
(* What the properties of the saves speak of *)

\* thread t has saved, and the file at the path is the file it wrote
SavedBy(t) == pc[t] = "done" /\ at_path # 0 /\ disk[at_path] = Pieces(t)

\* the file at the path is whole: what was there before the saves, or all a save writes
\* for the list of a thread that was started
WholeFile ==
    at_path # 0 =>
        \/ disk[at_path] = PreviousContent
        \/ \E t \in Threads : pc[t] # "idle" /\ disk[at_path] = Pieces(t)

---------------------------------------------------------------------------
(* C21 *)

\* C21: for every list of valid Expenses, the empty list too, and for both
\* formats, load_from_json of the file save_to_json wrote returns a list
\* equal to the saved one, element by element and in the same order.
C21_RoundTrip ==
    \A t \in Threads :
        (loaded # None /\ SavedBy(t)) =>
            (loaded[1][1] = "list" /\ ExpensesEq(loaded[1][2], job[t][1]))

\* the same, but for the empty list saved with ndjson=True: this much holds
RoundTripOfAFileWithContent ==
    \A t \in Threads :
        (loaded # None /\ SavedBy(t) /\ Pieces(t) # <<>>) =>
            (loaded[1][1] = "list" /\ ExpensesEq(loaded[1][2], job[t][1]))

---------------------------------------------------------------------------
(* C22 *)

\* C22: save_to_json writes atomically: at every point during a save, and
\* after a save that failed at any step, the file at the path is whole, its
\* content from before or all of the new one, never a part.
C22_SaveIsAtomic == WholeFile

---------------------------------------------------------------------------
(* C29 *)

\* the system failed no step of a save
NoFault == \A t \in Threads : err[t] # "OSError"

\* C29: when two saves in the background of one path run at the same time,
\* neither fails, and once wait_for_background_saves() has returned the file
\* at the path is all of what one of the two wrote.
C29_ConcurrentSaves ==
    (joined /\ NoFault /\ \A t \in Threads : pc[t] # "idle") =>
        /\ \A t \in Threads : pc[t] = "done"
        /\ at_path # 0
        /\ \E t \in Threads : disk[at_path] = Pieces(t)

---------------------------------------------------------------------------
(* What the properties of the ExpenseManager speak of *)

\* the list holds the objects of the manager, each as often as the manager does
SameObjects(list) ==
    /\ Len(list) = Len(expenses)
    /\ \A o \in 1..Len(objects) :
          Cardinality({k \in 1..Len(list) : list[k] = o})
              = Cardinality({k \in 1..Len(expenses) : expenses[k] = o})

\* the list is in ascending order of (date, amount, lowercased description)
Ascending(list) ==
    \A k \in 1..(Len(list) - 1) :
        /\ Comparable(objects[list[k]], objects[list[k + 1]])
        /\ ~KeyLt(objects[list[k + 1]], objects[list[k]])

\* the fields are those of a valid Expense
ValidExpense(e) ==
    /\ e[1][1] = "Decimal" /\ e[1][2] >= 0
    /\ Strip(e[2]) # <<>>
    /\ e[4][1] = "date"

---------------------------------------------------------------------------
(* C23 *)

\* C23: after any add, remove, update and clear, updates that are turned
\* down or raise among them, list_sorted() returns the expenses the manager
\* has now, in ascending order of (date, amount, lowercased description).
C23_ListSortedIsCurrent ==
    (last_call = <<"list_sorted">> /\ last_return[1] = "returns") =>
        (SameObjects(last_return[2]) /\ Ascending(last_return[2]))

\* the same for the calls made while no update has raised: this much holds
ListSortedIsCurrentOfValid ==
    (/\ last_call = <<"list_sorted">> /\ last_return[1] = "returns"
     /\ \A o \in 1..Len(objects) : ValidExpense(objects[o])) =>
        (SameObjects(last_return[2]) /\ Ascending(last_return[2]))

---------------------------------------------------------------------------
(* C28 *)

\* C28: every Expense the manager holds has an amount of zero or more, a
\* description that is not empty and a valid date after any add, update and
\* remove: an update that raises leaves the fields of the expense as they
\* were before the call.
C28_ManagedExpensesValid ==
    [][/\ \A k \in 1..Len(expenses') : ValidExpense(objects'[expenses'[k]])
       /\ (CallOf("update") /\ last_return'[1] = "raises") => objects' = objects]_vars

---------------------------------------------------------------------------
(* C24 *)

\* the names of a list of movies
NamesOf(ms) == [k \in 1..Len(ms) |-> ms[k].name] \o <<>>

\* C24: for every target_count and every outcome of the random choices, the
\* movies generate_synthetic_movies returns have names that differ from each
\* other and from every name of the collection, and they are exactly
\* max(0, target_count - len(movies)).
C24_GeneratedNamesUnique ==
    [][CallOf("generate_synthetic_movies") =>
          LET names == NamesOf(last_return')
              needed == last_call'[2] - Len(movies)
          IN  /\ \A j, k \in 1..Len(names) : j # k => names[j] # names[k]
              /\ \A k \in 1..Len(names) : names[k] \notin Range(NamesOf(movies))
              /\ Len(names) = (IF needed > 0 THEN needed ELSE 0)]_vars

\* this much holds: as many movies as are needed, those of titles without a number with
\* names that differ from each other and from the names of the collection
GeneratedCountAndTriedTitles ==
    [][CallOf("generate_synthetic_movies") =>
          LET names == NamesOf(last_return')
              needed == last_call'[2] - Len(movies)
          IN  /\ \A j, k \in 1..Len(names) :
                    (j # k /\ Len(names[j]) = 3) => names[j] # names[k]
              /\ \A k \in 1..Len(names) :
                    Len(names[k]) = 3 => names[k] \notin Range(NamesOf(movies))
              /\ Len(names) = (IF needed > 0 THEN needed ELSE 0)]_vars

---------------------------------------------------------------------------
(* C25 *)

\* matches_with_priority of the call as the text stage left it
TextStage == TextMatches(movies, Filtered(movies, args), QLower(args), HasFilters(args))

\* C25: for every query that is not empty and not all digits, and every
\* record, the text stage gives the priority 1000 or none: the priorities 900
\* (the name starts with a token) and 800 (a token is a word of the name) are
\* given to no record.
C25_OnlyTheTopTier ==
    (called /\ raised = NoError /\ QLower(args) # <<>> /\ ~IsDigit(QLower(args))) =>
        /\ \A k \in 1..Len(TextStage) : TextStage[k].p = 1000
        /\ \A i \in 1..Len(movies) :
              TextPriority(movies[i], QLower(args), HasFilters(args)) \in {0, 1000}
        /\ \A k \in 1..Len(best) : best[k].p \notin {900, 800}

\* a token of the query starts a name and is a word of it, in no genre and no category,
\* and the movie is in matches_with_priority; another movie of movie_list is not
C25_Witness ==
    /\ called /\ raised = NoError
    /\ QLower(args) # <<>> /\ ~IsDigit(QLower(args))
    /\ \E k \in 1..Len(TextStage) :
          LET m == movies[TextStage[k].m]
          IN  \E t \in Range(Tokens(QLower(args))) :
                  /\ StartsWith(Lower(m.name), t)
                  /\ t \in Range(Words(Lower(m.name)))
                  /\ ~Contains(t, Lower(m.genre)) /\ ~Contains(t, Lower(m.category))
    /\ Len(TextStage) < Len(Filtered(movies, args))

---------------------------------------------------------------------------
(* C26 *)

\* C26: whenever remove_favorite returns False, the favorite being absent or
\* the save having failed, the favorites list and the lookup set are as they
\* were before the call, every other favorite still there.
C26_FailedRemoveChangesNothing ==
    [][(CallOf("remove_favorite") /\ last_return' = FALSE)
          => (favorites' = favorites /\ favorites_set' = favorites_set)]_vars

\* this much holds: remove_favorite for what is no favorite returns False and changes
\* neither, and a remove_favorite whose save failed leaves every other favorite
FailedRemoveKeepsTheOthers ==
    [][/\ (CallOf("remove_favorite") /\ ~IsFavorite(favorites, last_call'[2], last_call'[3]))
          => (last_return' = FALSE /\ favorites' = favorites
              /\ favorites_set' = favorites_set /\ file' = file)
       /\ (CallOf("remove_favorite") /\ last_return' = FALSE)
          => \A k \in 1..Len(favorites) :
                 ~(Lower(favorites[k].name) = Lower(last_call'[2])
                   /\ favorites[k].year = last_call'[3])
                     => favorites[k] \in Range(favorites')]_vars

---------------------------------------------------------------------------
(* C27 *)

\* C27: after any calls of load_favorites, add_favorite and remove_favorite,
\* their saves succeeding or failing, the lookup set is the set of the
\* (lowercased name, year) pairs of the entries of the favorites list.
C27_SetIsKeysOfList ==
    favorites_set = {FavoriteKey(favorites[k].name, favorites[k].year) :
                        k \in 1..Len(favorites)}

\* an add_favorite got as far as the save, which failed, while the favorites, loaded
\* from the file, hold two entries of one movie in two spellings
C27_Witness ==
    /\ last_call # <<>>
    /\ last_call[1] = "add_favorite"
    /\ ~last_call[4] /\ last_call[5]
    /\ InDataset(movies, last_call[2], last_call[3])
    /\ ~IsFavorite(favorites, last_call[2], last_call[3])
    /\ \E j, k \in 1..Len(favorites) :
          /\ j # k
          /\ favorites[j].name # favorites[k].name
          /\ FavoriteKey(favorites[j].name, favorites[j].year)
                = FavoriteKey(favorites[k].name, favorites[k].year)

---------------------------------------------------------------------------
(* C30 *)

\* C30: sanitize_query is idempotent: for every text q and every max_length
\* n, sanitize_query(sanitize_query(q, n), n) is sanitize_query(q, n), so a
\* query the caller sanitized and find_matches sanitizes again is the same
\* query.
C30_SanitizeIdempotent ==
    text_out # None => sanitize_query(Some(text_out), length_in) = Some(text_out)

\* this much holds: a text that sanitize_query did not have to cut comes back the same
\* from a second sanitize_query
SanitizeIdempotentWithoutCut ==
    (text_out # None /\ Len(Trimmed(ControlFree(text_in))) <= length_in) =>
        sanitize_query(Some(text_out), length_in) = Some(text_out)

====
